---- MODULE Spec2Model ----
(***************************************************************************)
(* Model of the socket.io chat server (server/socket/index.js, the         *)
(* send_message handler of server/server.js) with its mongoose models.     *)
(*                                                                         *)
(* A handler is an async function: it runs synchronously up to an await,   *)
(* and its continuation runs later, after any number of steps of other     *)
(* handlers.  Each await of a handler is therefore a step boundary: the    *)
(* part of the handler still to run is kept in tasks[c] (or disc[c] for    *)
(* the disconnect handler) and one action models each continuation.        *)
(*                                                                         *)
(* What a step emits is recorded in out: the events the step delivered,    *)
(* per receiving connection.  out holds the emissions of the last step     *)
(* only.                                                                   *)
(***************************************************************************)
EXTENDS Integers, Sequences, FiniteSets, TLC

VARIABLES
    connState,    \* socket id -> "new" | "open" | "closed"  (socket.io transport)
    onlineUsers,  \* socket id -> identity id or NoUser      (index.js:6)
    rooms,        \* socket id -> set of rooms (socket.io adapter membership)
    usersDb,      \* identity id -> stored User document
    messages,     \* stored Message documents, in createdAt order
    clock,        \* source of _id / createdAt of new documents
    tasks,        \* socket id -> the handler that is waiting on an await
    disc,         \* socket id -> the disconnect handler waiting on user.save()
    out,          \* emissions of the last step
    toggles,      \* number of message:react events received (history variable)
    sentOffline,  \* ids of the private messages stored while their recipient
                  \* was logged in on no connection (history variable)
    client        \* the browser behind c1: one call of sendMessage(message, callback)
                  \* of socket.js, its timer, and the packets between it and the server

vars == <<connState, onlineUsers, rooms, usersDb, messages, clock, tasks, disc, out, toggles, sentOffline, client>>

----------------------------------------------------------------------------
(* Bounds of the model *)

\* Message.create calls in Spec
MaxMsgs == 1
\* Message.create calls in SpecPrivate
MaxPrivMsgs == 2
\* Message.create calls in SpecReceipts
MaxReceiptMsgs == 1
\* message:react events in SpecReceipts
MaxToggles == 2
\* Message.create calls in SpecHistory
MaxHistMsgs == 101

\* Message.create calls in SpecClient
MaxClientMsgs == 3
\* Message.create calls in SpecFailures
MaxFailMsgs == 1
\* Message.create calls in SpecJoin
MaxJoinMsgs == 1
\* Message.create calls in SpecDelivered
MaxDeliveredMsgs == 1
\* Message.create calls in SpecScope
MaxScopeMsgs == 1
\* Message.create calls in SpecLoad
MaxLoadMsgs == 2
\* calls of loadOlderMessages in SpecLoad
MaxLoads == 3
\* Message.create calls in SpecOrder
MaxOrderMsgs == 3
\* Message.create calls in SpecPages
MaxPageMsgs == 21
\* largest skip asked for in SpecPages
MaxSkip == 22

\* Message.find(...).limit(100)
HISTORY_LIMIT == 100
\* parseInt(req.query.limit) || 20
DEFAULT_PAGE_LIMIT == 20
\* attemptSend = (retries = 2)
RETRIES == 2

Conns == {"c1", "c2"}
Ids == {"u1", "u2"}
NoUser == "nouser"
NoId == "noid"

\* The text of an identity id, as UTF-16 code units ("u1", "u2").
CodeUnits(id) ==
    CASE id = "u1" -> <<117, 49>>
      [] id = "u2" -> <<117, 50>>
      [] OTHER -> <<>>

\* username of an identity (userSchema: username is unique, so one id per name)
IdOfName(n) == IF n = "alice" THEN "u1" ELSE "u2"

----------------------------------------------------------------------------
(* Rooms.  A socket.io room is a string; the model keeps the parsed form    *)
(* <<kind, a, b>> of the strings "global", "<name>", "user:<a>" and         *)
(* "private:<a>:<b>".  NoRoomId is an absent (or empty, falsy) roomId.      *)

GlobalRoom == <<"global", "", "">>
NoRoomId == <<"", "", "">>
NamedRoom(n) == <<"named", n, "">>
UserRoom(u) == <<"user", u, "">>
PrivateRoom(a, b) == <<"private", a, b>>

\* roomId?.startsWith("private:")
StartsWithPrivate(r) == r[1] = "private"

\* a < b for strings, as JavaScript compares them (by code units)
RECURSIVE SeqLess(_, _)
SeqLess(s, t) ==
    IF t = <<>> THEN FALSE
    ELSE IF s = <<>> THEN TRUE
    ELSE IF Head(s) # Head(t) THEN Head(s) < Head(t)
    ELSE SeqLess(Tail(s), Tail(t))

StrLess(a, b) == SeqLess(CodeUnits(a), CodeUnits(b))

\* [x, y].sort(): the default comparator orders by string value
SortPair(x, y) == IF StrLess(y, x) THEN <<y, x>> ELSE <<x, y>>

\* variant: the pair is joined without being sorted
ServerPrivateRoomKeyUnsorted(senderId, toUserId) == PrivateRoom(senderId, toUserId)

\* `private:${[senderId, toUserId].sort().join(":")}`
ServerPrivateRoomKey(senderId, toUserId) ==
    LET s == SortPair(senderId, toUserId) IN PrivateRoom(s[1], s[2])

\* `private:${[user._id, selectedUser._id].sort().join(":")}`
ClientPrivateRoomKey(userId, selectedUserId) ==
    LET s == SortPair(userId, selectedUserId) IN PrivateRoom(s[1], s[2])

----------------------------------------------------------------------------
(* Transport helpers *)

Open == {c \in Conns : connState[c] = "open"}

\* sockets of a room in the adapter
RoomSockets(r) == {c \in Conns : r \in rooms[c]}

\* io.to(room).emit: the adapter skips socket ids that are no longer connected
RoomTargets(r) == RoomSockets(r) \cap Open

Count(S, c) == IF c \in S THEN 1 ELSE 0

NoCounts == [c \in Conns |-> 0]

\* the record of a step that emitted nothing
NoOut == [kind |-> "none", phase |-> "", conn |-> "none", msg |-> 0, roomId |-> NoRoomId,
          msgNew |-> NoCounts, acks |-> 0, ack |-> "none", ackMsg |-> 0,
          history |-> <<>>, histTo |-> {}, snapshot |-> {}, snapTo |-> {},
          notifTo |-> {}, readTo |-> {}, reactTo |-> {},
          deliveredTo |-> {}, updateTo |-> {}, typingTo |-> {}, order |-> <<>>,
          user |-> NoId, saved |-> FALSE, reactions |-> <<>>, empty |-> FALSE,
          limit |-> 0, skip |-> 0, escaped |-> FALSE]

\* the task of a connection with no handler waiting on an await.  A waiting
\* handler keeps its event's payload and its local variables here.
Idle == [pc |-> "idle", kind |-> "none", roomId |-> NoRoomId, senderId |-> NoId,
         recipients |-> {}, content |-> "", att |-> 0, name |-> "", user |-> NoId,
         ldOnline |-> FALSE, ldSocket |-> "none",
         msg |-> 0, emoji |-> "", ver |-> 0, op |-> "none", idx |-> 0,
         local |-> <<>>, stamp |-> 0, ackId |-> 0]

\* ref: the socket id the stored User document named when the disconnect
\* handler started (history)
NoDisc == [pc |-> "none", user |-> NoUser, ref |-> "none"]

\* the browser before sendMessage is called.  pc: "idle" | "waiting" | "done";
\* retries: the argument of the attemptSend call that is waiting; cur: the ack
\* id of the emit whose callback has not run yet (0: none); attempts: emits
\* made; sent: ack ids of the send_message packets on their way to the
\* server; acks: acknowledgement packets on their way back, <<ack id, args,
\* id of the message in args (0: none)>>;
\* callbacks: calls of the caller's callback; result: its argument;
\* stored: documents the server created for this call (history)
\* retriedStored: a retry was emitted when the server had already stored a
\* document for the call (history)
\* The chat view (chatRoom.jsx) of that browser.  view: its `messages` state,
\* an entry being <<"id", _id>> of a stored message or <<"temp", tempId>> of a
\* placeholder; socketMessages: the `messages` state of useSocket (ids);
\* dirty: socketMessages changed and the merge effect has not run yet;
\* acked: id of the message of the acknowledgement that the emit's callback
\* got from a successful Send (history; 0: none);
\* mounted: the view's first effect has run; page, hasMore: its states of
\* these names; fetches: page numbers of the GET requests of fetchMessages
\* that have not been answered; loads: answers received (history)
NoCall == [pc |-> "idle", retries |-> 0, cur |-> 0, attempts |-> 0, sent |-> {},
           acks |-> {}, callbacks |-> 0, result |-> "none", stored |-> 0,
           retriedStored |-> FALSE,
           view |-> <<>>, socketMessages |-> <<>>, dirty |-> FALSE, acked |-> 0,
           mounted |-> FALSE, page |-> 1, hasMore |-> TRUE, fetches |-> {},
           loads |-> 0]

----------------------------------------------------------------------------
Init ==
    /\ connState = [c \in Conns |-> "new"]
    /\ onlineUsers = [c \in Conns |-> NoUser]
    /\ rooms = [c \in Conns |-> {}]
    /\ usersDb = [u \in Ids |-> [exists |-> FALSE, isOnline |-> FALSE, socketId |-> "none"]]
    /\ messages = <<>>
    /\ clock = 0
    /\ tasks = [c \in Conns |-> Idle]
    /\ disc = [c \in Conns |-> NoDisc]
    /\ out = NoOut
    /\ toggles = 0
    /\ sentOffline = {}
    /\ client = NoCall

\* io.on("connection"): a new socket, in no room, with no handler running
Connect(c) ==
    /\ connState[c] = "new"
    /\ connState' = [connState EXCEPT ![c] = "open"]
    /\ out' = NoOut
    /\ UNCHANGED <<onlineUsers, rooms, usersDb, messages, clock, tasks, disc, toggles, sentOffline, client>>

----------------------------------------------------------------------------
(* Message store *)

\* the first n elements of s (all of s when it is shorter)
Take(s, n) == SubSeq(s, 1, IF Len(s) < n THEN Len(s) ELSE n)

MsgIds(s) == {s[i].id : i \in 1..Len(s)}

IdsOf(s) == [i \in 1..Len(s) |-> s[i].id]

InRoom(r) == SelectSeq(messages, LAMBDA m : m.roomId = r)

\* Message.find({ roomId }).sort({ createdAt: 1 }).limit(100): the store is kept
\* in createdAt order, so this is the first 100 of the room, oldest first.
RoomHistory(r) == IdsOf(Take(InRoom(r), HISTORY_LIMIT))

\* the stored message with this _id (Message.findById); callers test MsgIds first
MsgIndex(id) == CHOOSE i \in 1..Len(messages) : messages[i].id = id

\* variant: a document with the sender, room and content of a stored one is
\* not stored again
InsertMsgDedup(m) ==
    IF \E i \in 1..Len(messages) :
            /\ messages[i].senderId = m.senderId /\ messages[i].roomId = m.roomId
            /\ messages[i].content = m.content
    THEN messages
    ELSE messages \o <<m>>

\* the store with document m added, in createdAt order
InsertMsg(m) ==
    LET before == SelectSeq(messages, LAMBDA x : x.id < m.id)
        after == SelectSeq(messages, LAMBDA x : x.id > m.id)
    IN before \o <<m>> \o after

----------------------------------------------------------------------------
(* GET /api/messages/:roomId (routes/message.routes.js) *)

RECURSIVE Reverse(_)
Reverse(s) == IF s = <<>> THEN <<>> ELSE Append(Reverse(Tail(s)), Head(s))

\* .skip(n): the sequence without its first n elements
Drop(s, n) == IF n >= Len(s) THEN <<>> ELSE SubSeq(s, n + 1, Len(s))

\* parseInt(req.query.x) || def.  A query value is a number >= 0; 0 stands
\* for "0" as well as for an absent or non-numeric value (NaN), all falsy.
QueryInt(q, def) == IF q = 0 THEN def ELSE q

\* variant: the query sorts oldest first, as the socket history does
GetMessagesAscending(roomId, limitQ, skipQ) ==
    LET limit == QueryInt(limitQ, DEFAULT_PAGE_LIMIT)
        skip == QueryInt(skipQ, 0)
    IN IdsOf(Reverse(Take(Drop(InRoom(roomId), skip), limit)))

\* Message.find({ roomId }).sort({ createdAt: -1 }).skip(skip).limit(limit),
\* then messages.reverse()
GetMessages(roomId, limitQ, skipQ) ==
    LET limit == QueryInt(limitQ, DEFAULT_PAGE_LIMIT)
        skip == QueryInt(skipQ, 0)
        latestFirst == Reverse(InRoom(roomId))
    IN IdsOf(Reverse(Take(Drop(latestFirst, skip), limit)))

\* router.get("/:roomId"): res.status(200).json(messages.reverse())
HttpGetMessages(roomId, limitQ, skipQ) ==
    /\ out' = [NoOut EXCEPT !.kind = "GET messages", !.roomId = roomId,
                            !.limit = limitQ, !.skip = skipQ,
                            !.history = GetMessages(roomId, limitQ, skipQ)]
    /\ UNCHANGED <<connState, onlineUsers, rooms, usersDb, messages, clock, tasks, disc, toggles, sentOffline, client>>

----------------------------------------------------------------------------
(* Presence *)

\* Array.from(onlineUsers.values()): one entry per socket id in the map
Snapshot(map) == {<<c, map[c]>> : c \in {x \in Conns : map[x] # NoUser}}

----------------------------------------------------------------------------
(* user:join *)

\* socket.on("user:join"): runs to its first await (User.findById / User.findOne)
UserJoin(c, username, userId) ==
    /\ connState[c] = "open"
    /\ tasks[c].pc = "idle"
    /\ tasks' = [tasks EXCEPT ![c] =
            [Idle EXCEPT !.pc = "join:lookup", !.kind = "user:join",
                         !.name = username, !.user = userId]]
    /\ out' = NoOut
    /\ UNCHANGED <<connState, onlineUsers, rooms, usersDb, messages, clock, disc, toggles, sentOffline, client>>

\* the lookups of user:join; with no user and no username the handler goes on
\* to broadcastOnlineUsers() and the history query
JoinLookup(c) ==
    LET t == tasks[c]
        byId == t.user # NoId /\ usersDb[t.user].exists
        byName == t.name # "" /\ usersDb[IdOfName(t.name)].exists
        found == IF byId THEN t.user ELSE IdOfName(t.name)
    IN
    /\ t.pc = "join:lookup"
    /\ IF byId \/ byName
       THEN /\ tasks' = [tasks EXCEPT ![c] =
                    [t EXCEPT !.pc = "join:save", !.user = found,
                              !.ldOnline = usersDb[found].isOnline,
                              !.ldSocket = usersDb[found].socketId]]
            /\ out' = NoOut
       ELSE IF t.name # ""
       THEN /\ tasks' = [tasks EXCEPT ![c] = [t EXCEPT !.pc = "join:create", !.user = NoId]]
            /\ out' = NoOut
       ELSE /\ tasks' = [tasks EXCEPT ![c] =
                    [t EXCEPT !.pc = "join:history", !.user = NoId]]
            /\ out' = [NoOut EXCEPT !.kind = "user:join:nobody", !.conn = c,
                                    !.snapshot = Snapshot(onlineUsers), !.snapTo = Open]
    /\ UNCHANGED <<connState, onlineUsers, rooms, usersDb, messages, clock, disc, toggles, sentOffline, client>>

\* User.create({ username, isOnline: true, socketId }); the unique index on
\* username rejects a second document of the same name, and the handler's
\* catch ends it there
JoinCreate(c) ==
    LET t == tasks[c]
        u == IdOfName(t.name)
    IN
    /\ t.pc = "join:create"
    /\ IF usersDb[u].exists
       THEN /\ tasks' = [tasks EXCEPT ![c] = Idle]
            /\ out' = NoOut
            /\ UNCHANGED usersDb
       ELSE /\ usersDb' = [usersDb EXCEPT ![u] =
                    [exists |-> TRUE, isOnline |-> TRUE, socketId |-> c]]
            /\ tasks' = [tasks EXCEPT ![c] =
                    [t EXCEPT !.pc = "join:save", !.user = u,
                              !.ldOnline = TRUE, !.ldSocket = c]]
            /\ out' = NoOut
    /\ UNCHANGED <<connState, onlineUsers, rooms, messages, clock, disc, toggles, sentOffline, client>>

\* user.save() writes the paths the handler changed on its copy of the document
SaveOnline(c, t) ==
    [usersDb EXCEPT ![t.user] =
        [exists |-> TRUE,
         isOnline |-> IF t.ldOnline THEN @.isOnline ELSE TRUE,
         socketId |-> IF t.ldSocket = c THEN @.socketId ELSE c]]

\* after user.save(): bind, join the user room, broadcast, query the history
JoinSave(c) ==
    LET t == tasks[c]
        map == [onlineUsers EXCEPT ![c] = t.user]
    IN
    /\ t.pc = "join:save"
    /\ usersDb' = SaveOnline(c, t)
    /\ onlineUsers' = map
    /\ rooms' = [rooms EXCEPT ![c] = @ \cup {UserRoom(t.user)}]
    /\ tasks' = [tasks EXCEPT ![c] = [t EXCEPT !.pc = "join:history"]]
    /\ out' = [NoOut EXCEPT !.kind = "user:join:bound", !.conn = c,
                            !.snapshot = Snapshot(map), !.snapTo = Open]
    /\ UNCHANGED <<connState, messages, clock, disc, toggles, sentOffline, client>>

\* socket.emit("messages:history", history); sendNotification("user-join", ...)
JoinHistory(c) ==
    LET t == tasks[c] IN
    /\ t.pc = "join:history"
    /\ tasks' = [tasks EXCEPT ![c] = Idle]
    /\ out' = [NoOut EXCEPT !.kind = "user:join:history", !.conn = c,
                            !.roomId = GlobalRoom,
                            !.history = RoomHistory(GlobalRoom),
                            !.histTo = {c} \cap Open, !.notifTo = Open]
    /\ UNCHANGED <<connState, onlineUsers, rooms, usersDb, messages, clock, disc, toggles, sentOffline, client>>

\* a storage call of user:join threw (findById, findOne, create, save or the
\* history query): `catch (err)` logs it and the handler ends.  What ran
\* before the failing await stays done.
JoinFailed(c) ==
    LET t == tasks[c] IN
    /\ t.pc \in {"join:lookup", "join:create", "join:save", "join:history"}
    /\ tasks' = [tasks EXCEPT ![c] = Idle]
    /\ out' = [NoOut EXCEPT !.kind = "user:join", !.phase = "failed", !.conn = c]
    /\ UNCHANGED <<connState, onlineUsers, rooms, usersDb, messages, clock, disc, toggles, sentOffline, client>>

----------------------------------------------------------------------------
(* room:join / room:leave *)

\* socket.on("room:join"): joins and runs to the await of the history query
RoomJoin(c, roomId) ==
    /\ connState[c] = "open"
    /\ tasks[c].pc = "idle"
    /\ IF roomId = NoRoomId
       THEN UNCHANGED <<rooms, tasks>>
       ELSE /\ rooms' = [rooms EXCEPT ![c] = @ \cup {roomId}]
            /\ tasks' = [tasks EXCEPT ![c] =
                    [Idle EXCEPT !.pc = "room:history", !.kind = "room:join",
                                 !.roomId = roomId]]
    /\ out' = NoOut
    /\ UNCHANGED <<connState, onlineUsers, usersDb, messages, clock, disc, toggles, sentOffline, client>>

\* socket.emit("messages:history", history); sendNotification("room-join", ...)
RoomJoinHistory(c) ==
    LET t == tasks[c] IN
    /\ t.pc = "room:history"
    /\ tasks' = [tasks EXCEPT ![c] = Idle]
    /\ out' = [NoOut EXCEPT !.kind = "room:join:history", !.conn = c,
                            !.roomId = t.roomId,
                            !.history = RoomHistory(t.roomId),
                            !.histTo = {c} \cap Open, !.notifTo = Open]
    /\ UNCHANGED <<connState, onlineUsers, rooms, usersDb, messages, clock, disc, toggles, sentOffline, client>>

\* the history query of room:join threw.  The handler has no try/catch: the
\* promise of the async listener is rejected and nothing handles it.  What
\* the process does with an unhandled rejection depends on the Node.js
\* version and flags: it warns and goes on, or it exits, which closes every
\* connection and loses the presence map.
RoomJoinFailed(c) ==
    LET t == tasks[c] IN
    /\ t.pc = "room:history"
    /\ out' = [NoOut EXCEPT !.kind = "room:join", !.phase = "failed", !.conn = c,
                            !.roomId = t.roomId, !.escaped = TRUE]
    /\ \E exits \in BOOLEAN :
        IF exits
        THEN /\ connState' = [x \in Conns |->
                    IF connState[x] = "open" THEN "closed" ELSE connState[x]]
             /\ onlineUsers' = [x \in Conns |-> NoUser]
             /\ rooms' = [x \in Conns |-> {}]
             /\ tasks' = [x \in Conns |-> Idle]
             /\ disc' = [x \in Conns |-> NoDisc]
        ELSE /\ tasks' = [tasks EXCEPT ![c] = Idle]
             /\ UNCHANGED <<connState, onlineUsers, rooms, disc>>
    /\ UNCHANGED <<usersDb, messages, clock, toggles, sentOffline, client>>

\* socket.on("room:leave")
RoomLeave(c, roomId) ==
    /\ connState[c] = "open"
    /\ IF roomId = NoRoomId
       THEN /\ UNCHANGED rooms
            /\ out' = [NoOut EXCEPT !.kind = "room:leave", !.conn = c]
       ELSE /\ rooms' = [rooms EXCEPT ![c] = @ \ {roomId}]
            /\ out' = [NoOut EXCEPT !.kind = "room:leave", !.conn = c,
                                    !.roomId = roomId, !.notifTo = Open]
    /\ UNCHANGED <<connState, onlineUsers, usersDb, messages, clock, tasks, disc, toggles, sentOffline, client>>

----------------------------------------------------------------------------
(* disconnect *)

\* variant: the handler empties the presence map (onlineUsers.clear())
UnbindAll(map, c) == [x \in Conns |-> NoUser]

\* onlineUsers.delete(socket.id)
Unbind(map, c) == [map EXCEPT ![c] = NoUser]

\* The transport closes: socket.io takes the socket out of every room and of
\* the namespace, then runs socket.on("disconnect") up to user.save().
Disconnect(c) ==
    LET user == onlineUsers[c]
        map == Unbind(onlineUsers, c)
        open == Open \ {c}
    IN
    /\ connState[c] = "open"
    /\ connState' = [connState EXCEPT ![c] = "closed"]
    /\ rooms' = [rooms EXCEPT ![c] = {}]
    /\ onlineUsers' = map
    /\ IF user # NoUser
       THEN /\ disc' = [disc EXCEPT ![c] =
                    [pc |-> "save", user |-> user, ref |-> usersDb[user].socketId]]
            /\ out' = NoOut
       ELSE /\ disc' = disc
            /\ out' = [NoOut EXCEPT !.kind = "disconnect:done", !.conn = c,
                                    !.snapshot = Snapshot(map), !.snapTo = open,
                                    !.notifTo = open]
    /\ UNCHANGED <<usersDb, messages, clock, tasks, toggles, sentOffline, client>>

\* The listener of "disconnect" called once more for a socket whose transport
\* is closed already (socket.io itself calls it once per socket): the same
\* body, run on what the presence map holds now.
DisconnectAgain(c) ==
    LET user == onlineUsers[c]
        map == Unbind(onlineUsers, c)
    IN
    /\ connState[c] = "closed"
    /\ disc[c].pc = "none"
    /\ onlineUsers' = map
    /\ IF user # NoUser
       THEN /\ disc' = [disc EXCEPT ![c] =
                    [pc |-> "save", user |-> user, ref |-> usersDb[user].socketId]]
            /\ out' = NoOut
       ELSE /\ disc' = disc
            /\ out' = [NoOut EXCEPT !.kind = "disconnect:done", !.phase = "again",
                                    !.conn = c,
                                    !.snapshot = Snapshot(map), !.snapTo = Open,
                                    !.notifTo = Open]
    /\ UNCHANGED <<connState, rooms, usersDb, messages, clock, tasks, toggles, sentOffline, client>>

\* after user.save(): broadcastOnlineUsers(); sendNotification("user-leave", ...)
DisconnectSave(c) ==
    /\ disc[c].pc = "save"
    /\ usersDb' = [usersDb EXCEPT ![disc[c].user] =
            [exists |-> TRUE, isOnline |-> FALSE, socketId |-> "none"]]
    /\ disc' = [disc EXCEPT ![c] = NoDisc]
    /\ out' = [NoOut EXCEPT !.kind = "disconnect:done", !.conn = c,
                            !.user = disc[c].user,
                            !.snapshot = Snapshot(onlineUsers), !.snapTo = Open,
                            !.notifTo = Open]
    /\ UNCHANGED <<connState, onlineUsers, rooms, messages, clock, tasks, toggles, sentOffline, client>>

\* user.save() was rejected: `.catch(() => {})` swallows it and the handler
\* goes on to broadcastOnlineUsers() and the user-leave notification
DisconnectSaveFailed(c) ==
    /\ disc[c].pc = "save"
    /\ disc' = [disc EXCEPT ![c] = NoDisc]
    /\ out' = [NoOut EXCEPT !.kind = "disconnect:done", !.phase = "failed", !.conn = c,
                            !.user = disc[c].user,
                            !.snapshot = Snapshot(onlineUsers), !.snapTo = Open,
                            !.notifTo = Open]
    /\ UNCHANGED <<connState, onlineUsers, rooms, usersDb, messages, clock, tasks, toggles, sentOffline, client>>

----------------------------------------------------------------------------
(* Send: message:send (index.js) and send_message (server.js) *)

\* the document Message.create builds from the handler's fields; the schema
\* defaults apply (readBy and reactions empty, meta.deliveredBy empty,
\* version 0)
NewMessage(t) ==
    [id |-> t.stamp, roomId |-> t.roomId, senderId |-> t.senderId,
     recipients |-> t.recipients, content |-> t.content, att |-> t.att,
     readBy |-> <<>>, reactions |-> <<>>, deliveredBy |-> <<>>, v |-> 0]

\* messageSchema: senderId and senderName are required
ValidMessage(t) == t.senderId # NoId

\* Both Send handlers run to `await Message.create({...})`.  A payload is
\* [roomId, senderId, recipients, content, att]; kind names the event.
\* roomId: payload.roomId || "global"; the payload's own roomId is kept in
\* local for the fan-out, which tests payload.roomId.  ackId is the id of the
\* packet's acknowledgement (0: the client asked for none); it is what the
\* handler's callback argument stands for.
SendStartAck(c, kind, p, cap, ackId) ==
    /\ connState[c] = "open"
    /\ tasks[c].pc = "idle"
    /\ clock < cap
    /\ clock' = clock + 1
    /\ tasks' = [tasks EXCEPT ![c] =
            [Idle EXCEPT !.pc = "send:create", !.kind = kind,
                         !.roomId = IF p.roomId = NoRoomId THEN GlobalRoom ELSE p.roomId,
                         !.local = <<p.roomId>>,
                         !.senderId = p.senderId, !.recipients = p.recipients,
                         !.content = p.content, !.att = p.att,
                         !.stamp = clock + 1, !.ackId = ackId]]
    /\ out' = NoOut
    /\ UNCHANGED <<connState, onlineUsers, rooms, usersDb, messages, disc, toggles, sentOffline>>

\* a Send event that came without an acknowledgement id
SendStart(c, kind, p, cap) == SendStartAck(c, kind, p, cap, 0) /\ UNCHANGED client

\* socket.on("message:send", async (payload) => ...)
MessageSend(c, p, cap) == SendStart(c, "message:send", p, cap)

\* socket.on("send_message", async (payload, callback) => ...)
SendMessage(c, p, cap) == SendStart(c, "send_message", p, cap)

\* variant: the recipients test comes before the private-room test
FanOutRecipientsFirst(c, roomId, recipients) ==
    IF recipients # {}
    THEN [x \in Conns |->
            Cardinality({r \in recipients : x \in RoomTargets(UserRoom(r))})
            + Count({c} \cap Open, x)]
    ELSE IF StartsWithPrivate(roomId)
    THEN [x \in Conns |-> Count(RoomTargets(roomId), x)]
    ELSE IF roomId # NoRoomId /\ roomId # GlobalRoom
    THEN [x \in Conns |-> Count(RoomTargets(roomId), x)]
    ELSE [x \in Conns |-> Count(Open, x)]

\* variant: a named room is tested before the recipients
FanOutRoomBeforeRecipients(c, roomId, recipients) ==
    IF StartsWithPrivate(roomId)
    THEN [x \in Conns |-> Count(RoomTargets(roomId), x)]
    ELSE IF roomId # NoRoomId /\ roomId # GlobalRoom
    THEN [x \in Conns |-> Count(RoomTargets(roomId), x)]
    ELSE IF recipients # {}
    THEN [x \in Conns |->
            Cardinality({r \in recipients : x \in RoomTargets(UserRoom(r))})
            + Count({c} \cap Open, x)]
    ELSE [x \in Conns |-> Count(Open, x)]

\* "Emit message to appropriate room(s)": how many message:new events each
\* connection gets, for the payload's roomId and recipients, sent from c
FanOut(c, roomId, recipients) ==
    IF StartsWithPrivate(roomId)
    THEN [x \in Conns |-> Count(RoomTargets(roomId), x)]
    ELSE IF recipients # {}
    THEN [x \in Conns |->
            Cardinality({r \in recipients : x \in RoomTargets(UserRoom(r))})
            + Count({c} \cap Open, x)]
    ELSE IF roomId # NoRoomId /\ roomId # GlobalRoom
    THEN [x \in Conns |-> Count(RoomTargets(roomId), x)]
    ELSE [x \in Conns |-> Count(Open, x)]

\* the arguments of the handler's callback: callback(null, { status:
\* "delivered", message: msgDoc }) after the fan-out, callback(err) in the catch
ServerAckArgs(phase) == IF phase = "done" THEN <<"null", "delivered">> ELSE <<"error">>

\* callback(...): socket.io sends the arguments back under the packet's
\* acknowledgement id; stored counts the documents created for the call
AckPacket(t, phase) ==
    IF t.ackId = 0 \/ t.kind # "send_message"
    THEN client
    ELSE [client EXCEPT !.acks = @ \cup {<<t.ackId, ServerAckArgs(phase),
                                            IF phase = "done" THEN t.stamp ELSE 0>>},
                        !.stored = @ + (IF phase = "done" THEN 1 ELSE 0)]

\* how often the handler of this event invokes the acknowledgement callback:
\* send_message calls callback once in its try or once in its catch;
\* message:send takes no callback
Acks(kind) == IF kind = "send_message" THEN 1 ELSE 0

\* variant: the handler acknowledges as soon as the document is created
SendStepsAckFirst(kind) ==
    <<"create">> \o (IF Acks(kind) > 0 THEN <<"ack">> ELSE <<>>)
    \o <<"message:new", "notification">>

\* what the try block of a Send handler does once Message.create has
\* returned, in the order of its statements: the fan-out of message:new, the
\* "new-message" notification, and in send_message the callback
SendSteps(kind) ==
    <<"create", "message:new", "notification">>
    \o (IF Acks(kind) > 0 THEN <<"ack">> ELSE <<>>)

\* the catch block: send_message passes the error to the callback
SendCatchSteps(kind) == IF Acks(kind) > 0 THEN <<"ack">> ELSE <<>>

\* Message.create succeeded: fan-out, notification, acknowledgement
SendCreated(c) ==
    LET t == tasks[c]
        m == NewMessage(t)
    IN
    /\ t.pc = "send:create"
    /\ t.kind \in {"message:send", "send_message"}
    /\ ValidMessage(t)
    /\ messages' = InsertMsg(m)
    /\ tasks' = [tasks EXCEPT ![c] = Idle]
    /\ out' = [NoOut EXCEPT !.kind = t.kind, !.phase = "done", !.conn = c, !.msg = m.id,
                            !.roomId = t.local[1],
                            !.empty = (t.content = "" /\ t.att = 0),
                            !.msgNew = FanOut(c, t.local[1], t.recipients),
                            !.notifTo = Open,
                            !.acks = Acks(t.kind),
                            !.ack = IF Acks(t.kind) > 0 THEN "delivered" ELSE "none",
                            !.ackMsg = IF Acks(t.kind) > 0 THEN m.id ELSE 0,
                            !.order = SendSteps(t.kind)]
    /\ client' = AckPacket(t, "done")
    /\ UNCHANGED <<connState, onlineUsers, rooms, usersDb, clock, disc, toggles, sentOffline>>

\* Message.create threw (a ValidationError of the schema, or the store
\* failed): the catch logs, and send_message passes the error to callback
SendFailed(c) ==
    LET t == tasks[c] IN
    /\ t.pc = "send:create"
    /\ t.kind \in {"message:send", "send_message"}
    /\ tasks' = [tasks EXCEPT ![c] = Idle]
    /\ out' = [NoOut EXCEPT !.kind = t.kind, !.phase = "failed", !.conn = c,
                            !.roomId = t.local[1],
                            !.empty = (t.content = "" /\ t.att = 0),
                            !.acks = Acks(t.kind),
                            !.ack = IF Acks(t.kind) > 0 THEN "error" ELSE "none",
                            !.order = SendCatchSteps(t.kind)]
    /\ client' = AckPacket(t, "failed")
    /\ UNCHANGED <<connState, onlineUsers, rooms, usersDb, messages, clock, disc, toggles, sentOffline>>

----------------------------------------------------------------------------
(* private_message *)

\* socket.on("private_message"): runs to `await Message.create({...})`
PrivateMessage(c, toUserId, senderId, content, cap) ==
    /\ connState[c] = "open"
    /\ tasks[c].pc = "idle"
    /\ clock < cap
    /\ clock' = clock + 1
    /\ tasks' = [tasks EXCEPT ![c] =
            [Idle EXCEPT !.pc = "send:create", !.kind = "private_message",
                         !.roomId = ServerPrivateRoomKey(senderId, toUserId),
                         !.senderId = senderId, !.recipients = {toUserId},
                         !.user = toUserId, !.content = content,
                         !.stamp = clock + 1]]
    /\ out' = NoOut
    /\ UNCHANGED <<connState, onlineUsers, rooms, usersDb, messages, disc, toggles, sentOffline, client>>

\* socket.join(roomId); io.to(`user:${toUserId}`).socketsJoin(roomId)
PrivateJoin(c, roomId, toUserId) ==
    [x \in Conns |->
        IF x = c \/ x \in RoomTargets(UserRoom(toUserId))
        THEN rooms[x] \cup {roomId} ELSE rooms[x]]

\* Message.create succeeded: auto-join, fan-out to the room, notification
PrivateCreated(c) ==
    LET t == tasks[c]
        m == NewMessage(t)
        joined == PrivateJoin(c, t.roomId, t.user)
        targets == {x \in Open : t.roomId \in joined[x]}
    IN
    /\ t.pc = "send:create"
    /\ t.kind = "private_message"
    /\ ValidMessage(t)
    /\ messages' = InsertMsg(m)
    /\ rooms' = joined
    /\ tasks' = [tasks EXCEPT ![c] = Idle]
    /\ out' = [NoOut EXCEPT !.kind = "private_message", !.phase = "done", !.conn = c,
                            !.msg = m.id, !.roomId = t.roomId, !.user = t.user,
                            !.msgNew = [x \in Conns |-> Count(targets, x)],
                            !.notifTo = Open]
    /\ sentOffline' = IF {x \in Open : onlineUsers[x] = t.user} = {}
                      THEN sentOffline \cup {m.id} ELSE sentOffline
    /\ UNCHANGED <<connState, onlineUsers, usersDb, clock, disc, toggles, client>>

\* Message.create threw: the catch logs and the handler ends
PrivateFailed(c) ==
    LET t == tasks[c] IN
    /\ t.pc = "send:create"
    /\ t.kind = "private_message"
    /\ tasks' = [tasks EXCEPT ![c] = Idle]
    /\ out' = [NoOut EXCEPT !.kind = "private_message", !.phase = "failed", !.conn = c,
                            !.roomId = t.roomId]
    /\ UNCHANGED <<connState, onlineUsers, rooms, usersDb, messages, clock, disc, toggles, sentOffline, client>>

----------------------------------------------------------------------------
(* message:read *)

InSeq(x, s) == \E i \in 1..Len(s) : s[i] = x

Occurrences(x, s) == Cardinality({i \in 1..Len(s) : s[i] = x})

\* socket.on("message:read"): returns on a missing id, else runs to
\* `await Message.findById(messageId)`
MessageRead(c, messageId, userId) ==
    /\ connState[c] = "open"
    /\ tasks[c].pc = "idle"
    /\ IF messageId = 0 \/ userId = NoId
       THEN UNCHANGED tasks
       ELSE tasks' = [tasks EXCEPT ![c] =
                [Idle EXCEPT !.pc = "read:find", !.kind = "message:read",
                             !.msg = messageId, !.user = userId]]
    /\ out' = NoOut
    /\ UNCHANGED <<connState, onlineUsers, rooms, usersDb, messages, clock, disc, toggles, sentOffline, client>>

\* variant: the receipt is pushed without looking at readBy
ReadNeedsPushAlways(readBy, userId) == TRUE

\* !msg.readBy.map(String).includes(String(userId))
ReadNeedsPush(readBy, userId) == ~InSeq(userId, readBy)

\* findById returned.  No message: return.  Identity already in the copy's
\* readBy: broadcast at once.  Else push and run to `await msg.save()`.
ReadFound(c) ==
    LET t == tasks[c] IN
    /\ t.pc = "read:find"
    /\ IF t.msg \notin MsgIds(messages)
       THEN /\ tasks' = [tasks EXCEPT ![c] = Idle]
            /\ out' = [NoOut EXCEPT !.kind = "message:read", !.phase = "missing", !.conn = c]
       ELSE LET m == messages[MsgIndex(t.msg)] IN
            IF ReadNeedsPush(m.readBy, t.user)
            THEN /\ tasks' = [tasks EXCEPT ![c] =
                        [t EXCEPT !.pc = "read:save", !.roomId = m.roomId]]
                 /\ out' = NoOut
            ELSE /\ tasks' = [tasks EXCEPT ![c] = Idle]
                 /\ out' = [NoOut EXCEPT !.kind = "message:read", !.phase = "done",
                                         !.conn = c, !.msg = t.msg, !.roomId = m.roomId,
                                         !.user = t.user, !.saved = FALSE,
                                         !.readTo = RoomTargets(m.roomId)]
    /\ UNCHANGED <<connState, onlineUsers, rooms, usersDb, messages, clock, disc, toggles, sentOffline, client>>

\* msg.save() after readBy.push(userId): mongoose sends the push of the one
\* element ($push) and increments the version; then the broadcast to the room
ReadSaved(c) ==
    LET t == tasks[c]
        i == MsgIndex(t.msg)
    IN
    /\ t.pc = "read:save"
    /\ t.msg \in MsgIds(messages)
    /\ messages' = [messages EXCEPT ![i].readBy = Append(@, t.user), ![i].v = @ + 1]
    /\ tasks' = [tasks EXCEPT ![c] = Idle]
    /\ out' = [NoOut EXCEPT !.kind = "message:read", !.phase = "done", !.conn = c,
                            !.msg = t.msg, !.roomId = t.roomId,
                            !.user = t.user, !.saved = TRUE,
                            !.readTo = RoomTargets(t.roomId)]
    /\ UNCHANGED <<connState, onlineUsers, rooms, usersDb, clock, disc, toggles, sentOffline, client>>

\* findById or msg.save() of message:read threw: the catch logs it
ReadFailed(c) ==
    LET t == tasks[c] IN
    /\ t.pc \in {"read:find", "read:save"}
    /\ tasks' = [tasks EXCEPT ![c] = Idle]
    /\ out' = [NoOut EXCEPT !.kind = "message:read", !.phase = "failed", !.conn = c,
                            !.msg = t.msg, !.user = t.user]
    /\ UNCHANGED <<connState, onlineUsers, rooms, usersDb, messages, clock, disc, toggles, sentOffline, client>>

----------------------------------------------------------------------------
(* message:react *)

\* socket.on("message:react"): runs to `await Message.findById(messageId)`
MessageReact(c, messageId, emoji, userId) ==
    /\ connState[c] = "open"
    /\ tasks[c].pc = "idle"
    /\ toggles < MaxToggles
    /\ toggles' = toggles + 1
    /\ tasks' = [tasks EXCEPT ![c] =
            [Idle EXCEPT !.pc = "react:find", !.kind = "message:react",
                         !.msg = messageId, !.emoji = emoji, !.user = userId]]
    /\ out' = NoOut
    /\ UNCHANGED <<connState, onlineUsers, rooms, usersDb, messages, clock, disc, sentOffline, client>>

\* msg.reactions.find((r) => r.emoji === emoji): index of the first entry, or 0
FindReaction(reactions, emoji) ==
    IF \E i \in 1..Len(reactions) : reactions[i].emoji = emoji
    THEN CHOOSE i \in 1..Len(reactions) :
            /\ reactions[i].emoji = emoji
            /\ \A j \in 1..(i - 1) : reactions[j].emoji # emoji
    ELSE 0

\* users.findIndex((u) => String(u) === String(userId)): first index, or 0
FindUser(users, userId) ==
    IF InSeq(userId, users)
    THEN CHOOSE i \in 1..Len(users) :
            users[i] = userId /\ \A j \in 1..(i - 1) : users[j] # userId
    ELSE 0

\* users.splice(idx, 1)
RemoveAt(s, i) == SubSeq(s, 1, i - 1) \o SubSeq(s, i + 1, Len(s))

\* what the handler does to its copy of the document: the kind of change and
\* the copy's reactions after it
ToggleLocal(reactions, emoji, userId) ==
    LET i == FindReaction(reactions, emoji) IN
    IF i = 0
    THEN [op |-> "pushEntry", idx |-> 0,
          reactions |-> Append(reactions, [emoji |-> emoji, users |-> <<userId>>])]
    ELSE LET k == FindUser(reactions[i].users, userId) IN
         IF k = 0
         THEN [op |-> "pushUser", idx |-> i,
               reactions |-> [reactions EXCEPT ![i].users = Append(@, userId)]]
         ELSE [op |-> "setUsers", idx |-> i,
               reactions |-> [reactions EXCEPT ![i].users = RemoveAt(@, k)]]

\* findById returned.  No message: return.  Else toggle on the copy and run to
\* `await msg.save()`.
ReactFound(c) ==
    LET t == tasks[c] IN
    /\ t.pc = "react:find"
    /\ IF t.msg \notin MsgIds(messages)
       THEN /\ tasks' = [tasks EXCEPT ![c] = Idle]
            /\ out' = [NoOut EXCEPT !.kind = "message:react", !.phase = "missing", !.conn = c]
       ELSE LET m == messages[MsgIndex(t.msg)]
                g == ToggleLocal(m.reactions, t.emoji, t.user)
            IN
            /\ tasks' = [tasks EXCEPT ![c] =
                    [t EXCEPT !.pc = "react:save", !.op = g.op, !.idx = g.idx,
                              !.local = g.reactions, !.ver = m.v]]
            /\ out' = NoOut
    /\ UNCHANGED <<connState, onlineUsers, rooms, usersDb, messages, clock, disc, toggles, sentOffline, client>>

\* msg.save() sends the change made to the copy, not the whole document.
\* A pushed entry is appended to the stored reactions ($push on the path
\* reactions).  A change inside entry idx (a push to, or a splice of, the path
\* reactions.<idx>.users) is applied only if the stored version is still the
\* version of the copy; otherwise save() throws a VersionError.
SaveApplies(t, m) == t.op = "pushEntry" \/ m.v = t.ver

SavedReactions(t, m) ==
    IF t.op = "pushEntry"
    THEN Append(m.reactions, t.local[Len(t.local)])
    ELSE IF t.op = "pushUser"
    THEN [m.reactions EXCEPT ![t.idx].users = Append(@, t.user)]
    ELSE [m.reactions EXCEPT ![t.idx].users = t.local[t.idx].users]

\* after msg.save(): io.emit("message:reaction", { messageId, reactions })
ReactSaved(c) ==
    LET t == tasks[c]
        i == MsgIndex(t.msg)
    IN
    /\ t.pc = "react:save"
    /\ SaveApplies(t, messages[i])
    /\ messages' = [messages EXCEPT ![i].reactions = SavedReactions(t, messages[i]),
                                    ![i].v = @ + 1]
    /\ tasks' = [tasks EXCEPT ![c] = Idle]
    /\ out' = [NoOut EXCEPT !.kind = "message:react", !.phase = "done", !.conn = c,
                            !.msg = t.msg, !.user = t.user, !.reactions = t.local,
                            !.reactTo = Open]
    /\ UNCHANGED <<connState, onlineUsers, rooms, usersDb, clock, disc, toggles, sentOffline, client>>

\* msg.save() threw: the catch logs and the handler ends without a broadcast
ReactSaveFailed(c) ==
    LET t == tasks[c]
        i == MsgIndex(t.msg)
    IN
    /\ t.pc = "react:save"
    /\ ~SaveApplies(t, messages[i])
    /\ tasks' = [tasks EXCEPT ![c] = Idle]
    /\ out' = [NoOut EXCEPT !.kind = "message:react", !.phase = "failed", !.conn = c,
                            !.msg = t.msg, !.user = t.user]
    /\ UNCHANGED <<connState, onlineUsers, rooms, usersDb, messages, clock, disc, toggles, sentOffline, client>>

----------------------------------------------------------------------------
(* message:delivered (index.js, and the second listener of server.js) *)

\* A connection of the /chat namespace carries two listeners of
\* message:delivered.  The one of index.js runs to
\* `await Message.findById(messageId)`; the one of server.js then runs to its
\* end: socket.broadcast.emit("message:delivered:update", payload), which
\* goes to every other connected socket.
MessageDelivered(c, messageId, userId) ==
    /\ connState[c] = "open"
    /\ tasks[c].pc = "idle"
    /\ tasks' = [tasks EXCEPT ![c] =
            [Idle EXCEPT !.pc = "delivered:find", !.kind = "message:delivered",
                         !.msg = messageId, !.user = userId]]
    /\ out' = [NoOut EXCEPT !.kind = "message:delivered", !.phase = "received",
                            !.conn = c, !.msg = messageId, !.user = userId,
                            !.updateTo = Open \ {c}]
    /\ UNCHANGED <<connState, onlineUsers, rooms, usersDb, messages, clock, disc, toggles, sentOffline, client>>

\* findById returned.  No message: return.  Else msg.meta.deliveredBy of the
\* copy gets the identity unless it is there, and the handler runs to
\* `await msg.save()`; with the identity there it broadcasts at once.
DeliveredFound(c) ==
    LET t == tasks[c] IN
    /\ t.pc = "delivered:find"
    /\ IF t.msg \notin MsgIds(messages)
       THEN /\ tasks' = [tasks EXCEPT ![c] = Idle]
            /\ out' = [NoOut EXCEPT !.kind = "message:delivered", !.phase = "missing",
                                    !.conn = c]
       ELSE LET m == messages[MsgIndex(t.msg)] IN
            IF ~InSeq(t.user, m.deliveredBy)
            THEN /\ tasks' = [tasks EXCEPT ![c] =
                        [t EXCEPT !.pc = "delivered:save",
                                  !.local = Append(m.deliveredBy, t.user)]]
                 /\ out' = NoOut
            ELSE /\ tasks' = [tasks EXCEPT ![c] = Idle]
                 /\ out' = [NoOut EXCEPT !.kind = "message:delivered", !.phase = "done",
                                         !.conn = c, !.msg = t.msg, !.user = t.user,
                                         !.saved = FALSE, !.deliveredTo = Open]
    /\ UNCHANGED <<connState, onlineUsers, rooms, usersDb, messages, clock, disc, toggles, sentOffline, client>>

\* variant: the handler calls msg.markModified("meta") before msg.save(), so
\* that the copy's meta replaces the stored one
SavedDeliveredByMarked(stored, local) == local

\* What msg.save() stores of the copy's meta.deliveredBy.  meta is a Mixed
\* path (part_000:44): mongoose tracks assignments to the path itself, not
\* changes inside its value.  `msg.meta = msg.meta || {}` assigns the value
\* the path already has, and the push goes into a plain array of that value;
\* no path is marked modified, and save() sends nothing.
SavedDeliveredBy(stored, local) == stored

\* after msg.save(): io.emit("message:delivered", { messageId, userId })
DeliveredSaved(c) ==
    LET t == tasks[c]
        i == MsgIndex(t.msg)
    IN
    /\ t.pc = "delivered:save"
    /\ t.msg \in MsgIds(messages)
    /\ messages' = [messages EXCEPT
                        ![i].deliveredBy = SavedDeliveredBy(@, t.local)]
    /\ tasks' = [tasks EXCEPT ![c] = Idle]
    /\ out' = [NoOut EXCEPT !.kind = "message:delivered", !.phase = "done", !.conn = c,
                            !.msg = t.msg, !.user = t.user, !.saved = TRUE,
                            !.deliveredTo = Open]
    /\ UNCHANGED <<connState, onlineUsers, rooms, usersDb, clock, disc, toggles, sentOffline, client>>

\* findById or msg.save() of message:delivered threw: the catch logs it
DeliveredFailed(c) ==
    LET t == tasks[c] IN
    /\ t.pc \in {"delivered:find", "delivered:save"}
    /\ tasks' = [tasks EXCEPT ![c] = Idle]
    /\ out' = [NoOut EXCEPT !.kind = "message:delivered", !.phase = "failed", !.conn = c,
                            !.msg = t.msg, !.user = t.user]
    /\ UNCHANGED <<connState, onlineUsers, rooms, usersDb, messages, clock, disc, toggles, sentOffline, client>>

----------------------------------------------------------------------------
(* typing:start and typing:stop *)

\* socket.to(roomId || "global").emit(event, { user }): the members of the
\* room other than the sending socket.  The handler has no await and touches
\* no variable of the server.
Typing(c, event, roomId) ==
    LET room == IF roomId = NoRoomId THEN GlobalRoom ELSE roomId IN
    /\ connState[c] = "open"
    /\ out' = [NoOut EXCEPT !.kind = event, !.phase = "done", !.conn = c,
                            !.roomId = room,
                            !.typingTo = RoomTargets(room) \ {c}]
    /\ UNCHANGED <<connState, onlineUsers, rooms, usersDb, messages, clock, tasks, disc, toggles, sentOffline, client>>

TypingStart(c, roomId) == Typing(c, "typing:start", roomId)

TypingStop(c, roomId) == Typing(c, "typing:stop", roomId)

----------------------------------------------------------------------------
(* The client's sendMessage(message, callback) (client/src/socket/socket.js) *)

\* the message the chat view passes to sendMessage
ClientMessage ==
    [roomId |-> GlobalRoom, senderId |-> "u1", recipients |-> {}, content |-> "hi", att |-> 0]

\* attemptSend(retries): socket.timeout(10000).emit("send_message", message, cb).
\* The emit gets the next acknowledgement id; its packet is on its way.
AttemptSend(cl, retries) ==
    [cl EXCEPT !.pc = "waiting", !.retries = retries, !.attempts = @ + 1,
               !.cur = cl.attempts + 1, !.sent = @ \cup {cl.attempts + 1}]

\* callback(x): the caller's callback is invoked and the call is over
Callback(cl, x) ==
    [cl EXCEPT !.pc = "done", !.cur = 0, !.callbacks = @ + 1, !.result = x]

\* sendMessage(message, callback): with no socket, callback({ status: "failed" })
\* at once; else attemptSend() with retries = 2
ClientSendMessage(hasSocket) ==
    /\ client.pc = "idle"
    /\ client' = IF hasSocket THEN AttemptSend(client, RETRIES) ELSE Callback(client, "failed")
    /\ out' = NoOut
    /\ UNCHANGED <<connState, onlineUsers, rooms, usersDb, messages, clock, tasks, disc, toggles, sentOffline>>

\* a send_message packet of the client reaches the server, which runs the
\* handler with the packet's acknowledgement as callback
ServerReceives(a) ==
    /\ a \in client.sent
    /\ SendStartAck("c1", "send_message", ClientMessage, MaxClientMsgs, a)
    /\ client' = [client EXCEPT !.sent = @ \ {a}]

\* socket.timeout(): the emit's callback is called as cb(null, ...args) with
\* the arguments of the server's callback, so its second parameter, ack, is
\* the server's first argument
ClientAckParam(args) == args[1]

\* uniqueMessages(list): the first entry of every key (m._id || m.tempId)
UniqueMessages(list) ==
    LET keep == {i \in 1..Len(list) : \A j \in 1..(i - 1) : list[j] # list[i]}
        F[i \in 0..Len(list)] ==
            IF i = 0 THEN <<>>
            ELSE IF i \in keep THEN Append(F[i - 1], list[i]) ELSE F[i - 1]
    IN F[Len(list)]

\* tempMessage of handleSend: tempId `temp-${Date.now()}`, no _id
TempMessage == <<"temp", 1>>

\* the callback handleSend passes to sendMessage: if ack?.status is
\* "delivered", the placeholder is filtered out and ack.message is added
ViewAck(view, ack, msgId) ==
    IF ack = "delivered"
    THEN UniqueMessages(Append(SelectSeq(view, LAMBDA m : m # TempMessage),
                               <<"id", msgId>>))
    ELSE view

\* an acknowledgement packet reaches the client.  If the timer of its emit
\* has not fired, the emit's callback runs with err = null: callback(ack),
\* which in the chat view is the callback of handleSend.
\* After the timer has fired the acknowledgement is dropped.
ClientAckArrives(pkt) ==
    /\ pkt \in client.acks
    /\ client' = IF client.pc = "waiting" /\ pkt[1] = client.cur
                 THEN [Callback(client, ClientAckParam(pkt[2])) EXCEPT
                            !.acks = @ \ {pkt},
                            !.view = ViewAck(@, ClientAckParam(pkt[2]), pkt[3]),
                            !.acked = pkt[3]]
                 ELSE [client EXCEPT !.acks = @ \ {pkt}]
    /\ out' = NoOut
    /\ UNCHANGED <<connState, onlineUsers, rooms, usersDb, messages, clock, tasks, disc, toggles, sentOffline>>

\* variant: when no retries are left the call ends without the callback
TimeoutOutcomeSilent(cl) ==
    IF cl.retries > 0
    THEN [AttemptSend(cl, cl.retries - 1) EXCEPT !.retriedStored = @ \/ cl.stored > 0]
    ELSE [cl EXCEPT !.pc = "done", !.cur = 0]

\* the emit's callback with err set: attemptSend(retries - 1) while retries
\* are left, else callback({ status: "failed", error: err })
TimeoutOutcome(cl) ==
    IF cl.retries > 0
    THEN [AttemptSend(cl, cl.retries - 1) EXCEPT !.retriedStored = @ \/ cl.stored > 0]
    ELSE Callback(cl, "failed")

\* the 10 s timer of the waiting emit fires before its acknowledgement
ClientTimeout ==
    /\ client.pc = "waiting"
    /\ client' = TimeoutOutcome(client)
    /\ out' = NoOut
    /\ UNCHANGED <<connState, onlineUsers, rooms, usersDb, messages, clock, tasks, disc, toggles, sentOffline>>

\* handleSend of the chat view: the placeholder goes into the list, then
\* sendMessage(message, callback) runs attemptSend() (the hook has made the
\* socket)
HandleSend ==
    /\ client.pc = "idle"
    /\ client' = [AttemptSend(client, RETRIES) EXCEPT
                        !.view = UniqueMessages(Append(@, TempMessage))]
    /\ out' = NoOut
    /\ UNCHANGED <<connState, onlineUsers, rooms, usersDb, messages, clock, tasks, disc, toggles, sentOffline>>

\* the receive_message of a stored message (server.js:121, to every socket of
\* the namespace) reaches the browser: onMessage appends it to the hook's
\* messages
ReceiveMessage(id) ==
    /\ connState["c1"] = "open"
    /\ id \in MsgIds(messages)
    /\ ~InSeq(id, client.socketMessages)
    /\ client' = [client EXCEPT !.socketMessages = Append(@, id), !.dirty = TRUE]
    /\ out' = NoOut
    /\ UNCHANGED <<connState, onlineUsers, rooms, usersDb, messages, clock, tasks, disc, toggles, sentOffline>>

\* the effect on [socketMessages]:
\* setMessages((prev) => uniqueMessages([...prev, ...socketMessages]))
MergeEffect ==
    /\ client.dirty
    /\ client' = [client EXCEPT
            !.view = UniqueMessages(@ \o [i \in 1..Len(client.socketMessages) |->
                                            <<"id", client.socketMessages[i]>>]),
            !.dirty = FALSE]
    /\ out' = NoOut
    /\ UNCHANGED <<connState, onlineUsers, rooms, usersDb, messages, clock, tasks, disc, toggles, sentOffline>>

\* fetchMessages(pageNumber) up to its await: axios.get of
\* /messages/global?page=<pageNumber>
FetchMessages(cl, pageNumber) == [cl EXCEPT !.fetches = @ \cup {pageNumber}]

\* useEffect(() => { fetchMessages(1); }, [])
Mount ==
    /\ ~client.mounted
    /\ client' = [FetchMessages(client, 1) EXCEPT !.mounted = TRUE]
    /\ out' = NoOut
    /\ UNCHANGED <<connState, onlineUsers, rooms, usersDb, messages, clock, tasks, disc, toggles, sentOffline>>

\* loadOlderMessages: if (hasMore) { setPage(page + 1); fetchMessages(page + 1) }
LoadOlderMessages ==
    /\ client.mounted
    /\ client.hasMore
    /\ client.page < 1 + MaxLoads
    /\ client' = [FetchMessages(client, client.page + 1) EXCEPT !.page = @ + 1]
    /\ out' = NoOut
    /\ UNCHANGED <<connState, onlineUsers, rooms, usersDb, messages, clock, tasks, disc, toggles, sentOffline>>

\* The server's answer to GET /messages/<roomId>?page=<pageNumber>: the route
\* reads req.query.limit and req.query.skip, which the request does not
\* have; page is not read.
PageOfRoom(roomId, pageNumber) == GetMessages(roomId, 0, 0)

\* The request is answered and fetchMessages goes on: no message:
\* setHasMore(false); page 1: the answer becomes the list; a later page: it is
\* put before the list.
FetchReturns(pageNumber) ==
    LET ids == PageOfRoom(GlobalRoom, pageNumber)
        newMessages == [i \in 1..Len(ids) |-> <<"id", ids[i]>>]
    IN
    /\ pageNumber \in client.fetches
    /\ client' = [client EXCEPT
            !.fetches = @ \ {pageNumber},
            !.loads = @ + 1,
            !.hasMore = IF Len(newMessages) = 0 THEN FALSE ELSE @,
            !.view = IF pageNumber = 1 THEN newMessages ELSE newMessages \o @]
    /\ out' = [NoOut EXCEPT !.kind = "GET messages", !.roomId = GlobalRoom,
                            !.history = ids]
    /\ UNCHANGED <<connState, onlineUsers, rooms, usersDb, messages, clock, tasks, disc, toggles, sentOffline>>

----------------------------------------------------------------------------
(* The events the clients send *)

\* the name a connection's user logs in with
LoginName(c) == IF c = "c1" THEN "alice" ELSE "bob"
LoginId(c) == IdOfName(LoginName(c))
OtherId(u) == IF u = "u1" THEN "u2" ELSE "u1"

\* payloads of message:send / send_message: each fan-out rule, with and
\* without recipients, and the bodies with no content
SendPayloads ==
    {[roomId |-> x[1], senderId |-> "u1", recipients |-> x[2], content |-> "hi", att |-> 0] :
        x \in {<<NoRoomId, {}>>, <<GlobalRoom, {}>>, <<NamedRoom("dev"), {}>>,
               <<NamedRoom("dev"), {"u2"}>>,
               <<ClientPrivateRoomKey("u1", "u2"), {}>>,
               <<ClientPrivateRoomKey("u1", "u2"), {"u2"}>>}}
    \cup
    {[roomId |-> GlobalRoom, senderId |-> "u1", recipients |-> {}, content |-> "", att |-> a] :
        a \in {0, 1}}

\* Spec: two connections that log in under their own names, join and leave a
\* named room, and disconnect; c1 sends, either connection writes privately.
Next ==
    \E c \in Conns :
        \/ Connect(c)
        \/ Disconnect(c)
        \/ DisconnectSave(c)
        \/ UserJoin(c, LoginName(c), NoId)
        \/ JoinLookup(c)
        \/ JoinCreate(c)
        \/ JoinSave(c)
        \/ JoinHistory(c)
        \/ RoomJoin(c, NamedRoom("dev"))
        \/ c = "c1" /\ RoomJoin(c, ClientPrivateRoomKey("u1", "u2"))
        \/ RoomJoinHistory(c)
        \/ RoomLeave(c, NamedRoom("dev"))
        \/ \E p \in SendPayloads : c = "c1" /\ MessageSend(c, p, MaxMsgs)
        \/ \E p \in SendPayloads : c = "c1" /\ SendMessage(c, p, MaxMsgs)
        \/ SendCreated(c)
        \/ SendFailed(c)
        \/ PrivateMessage(c, OtherId(LoginId(c)), LoginId(c), "hi", MaxMsgs)
        \/ PrivateCreated(c)
        \/ PrivateFailed(c)

Spec == Init /\ [][Next]_vars

\* a message for everybody, sent with no roomId
GlobalPayload ==
    [roomId |-> NoRoomId, senderId |-> "u1", recipients |-> {}, content |-> "hi", att |-> 0]

\* SpecPrivate: private messages in both directions, from the server's
\* private_message event and from the chat view's handleSend, which computes
\* the room key itself and sends it with send_message.
ClientSendPayload(userId, selectedUserId) ==
    [roomId |-> ClientPrivateRoomKey(userId, selectedUserId), senderId |-> userId,
     recipients |-> {}, content |-> "hi", att |-> 0]

NextPrivate ==
    \E c \in Conns :
        \/ Connect(c)
        \/ \E s \in Ids : PrivateMessage(c, OtherId(s), s, "hi", MaxPrivMsgs)
        \/ PrivateCreated(c)
        \/ \E s \in Ids : SendMessage(c, ClientSendPayload(s, OtherId(s)), MaxPrivMsgs)
        \/ SendCreated(c)

SpecPrivate == Init /\ [][NextPrivate]_vars

\* SpecReceipts: one message in "global"; both connections may join that
\* room, send read receipts for either identity, and toggle u1's reaction.
NextReceipts ==
    \E c \in Conns :
        \/ Connect(c)
        \/ RoomJoin(c, GlobalRoom)
        \/ RoomJoinHistory(c)
        \/ c = "c1" /\ SendMessage(c, GlobalPayload, MaxReceiptMsgs)
        \/ SendCreated(c)
        \/ \E m \in 1..clock, u \in Ids : MessageRead(c, m, u)
        \/ ReadFound(c)
        \/ ReadSaved(c)
        \/ \E m \in MsgIds(messages) : MessageReact(c, m, "like", "u1")
        \/ ReactFound(c)
        \/ ReactSaved(c)
        \/ ReactSaveFailed(c)

SpecReceipts == Init /\ [][NextReceipts]_vars

\* SpecDelivered: messages in "global", sent by c1; c2 may join the room;
\* each connection sends read and delivered receipts for its own identity and
\* toggles u1's reaction, naming the first message or an id that is never in
\* the store.
MissingId == MaxDeliveredMsgs + 1

ReceiptIds == {1, MissingId}

NextDelivered ==
    \E c \in Conns :
        \/ Connect(c)
        \/ c = "c2" /\ RoomJoin(c, GlobalRoom)
        \/ RoomJoinHistory(c)
        \/ c = "c1" /\ SendMessage(c, GlobalPayload, MaxDeliveredMsgs)
        \/ SendCreated(c)
        \/ \E m \in ReceiptIds : MessageRead(c, m, LoginId(c))
        \/ ReadFound(c)
        \/ ReadSaved(c)
        \/ \E m \in ReceiptIds : MessageReact(c, m, "like", "u1")
        \/ ReactFound(c)
        \/ ReactSaved(c)
        \/ ReactSaveFailed(c)
        \/ \E m \in ReceiptIds : MessageDelivered(c, m, LoginId(c))
        \/ DeliveredFound(c)
        \/ DeliveredSaved(c)
        \/ DeliveredFailed(c)

SpecDelivered == Init /\ [][NextDelivered]_vars

\* SpecHistory: c1 fills one room, "global" or the private room of u1 and u2,
\* with up to MaxHistMsgs messages; c2 logs in as u2 and then asks for the
\* private room's history.
AllInRoom(r) == \A i \in 1..Len(messages) : messages[i].roomId = r

NextHistory ==
    \/ \E c \in Conns : Connect(c)
    \/ /\ AllInRoom(ServerPrivateRoomKey("u1", "u2"))
       /\ PrivateMessage("c1", "u2", "u1", "hi", MaxHistMsgs)
    \/ PrivateCreated("c1")
    \/ /\ AllInRoom(GlobalRoom)
       /\ SendMessage("c1", GlobalPayload, MaxHistMsgs)
    \/ SendCreated("c1")
    \/ UserJoin("c2", "bob", NoId)
    \/ JoinLookup("c2")
    \/ JoinCreate("c2")
    \/ JoinSave("c2")
    \/ JoinHistory("c2")
    \/ /\ onlineUsers["c2"] = "u2"
       /\ RoomJoin("c2", ServerPrivateRoomKey("u1", "u2"))
    \/ RoomJoinHistory("c2")

SpecHistory == Init /\ [][NextHistory]_vars

\* SpecPages: c1 fills the room "dev" (the first two messages may go to
\* "global" instead) and pages of either room are fetched over HTTP.
PagePayload(r) ==
    [roomId |-> r, senderId |-> "u1", recipients |-> {}, content |-> "hi", att |-> 0]

PageLimits == {0, 1, 3}

NextPages ==
    \/ Connect("c1")
    \/ SendMessage("c1", PagePayload(NamedRoom("dev")), MaxPageMsgs)
    \/ clock < 2 /\ SendMessage("c1", PagePayload(GlobalRoom), MaxPageMsgs)
    \/ SendCreated("c1")
    \/ \E r \in {GlobalRoom, NamedRoom("dev")}, l \in PageLimits, k \in 0..MaxSkip :
            HttpGetMessages(r, l, k)

SpecPages == Init /\ [][NextPages]_vars

\* SpecOrder: once both connections are open, each sends to "global" under its
\* own identity, with either Send event, and asks for the room's history.
OrderPayload(c) ==
    [roomId |-> GlobalRoom, senderId |-> LoginId(c), recipients |-> {},
     content |-> "hi", att |-> 0]

NextOrder ==
    \E c \in Conns :
        \/ Connect(c)
        \/ Open = Conns /\ SendMessage(c, OrderPayload(c), MaxOrderMsgs)
        \/ Open = Conns /\ MessageSend(c, OrderPayload(c), MaxOrderMsgs)
        \/ SendCreated(c)
        \/ RoomJoin(c, GlobalRoom)
        \/ RoomJoinHistory(c)

SpecOrder == Init /\ [][NextOrder]_vars

\* SpecFailures: the handlers other than Send, each with the outcome that a
\* storage call of it fails.
NextFailures ==
    \E c \in Conns :
        \/ Connect(c)
        \/ UserJoin(c, LoginName(c), NoId)
        \/ JoinLookup(c)
        \/ JoinCreate(c)
        \/ JoinSave(c)
        \/ JoinHistory(c)
        \/ JoinFailed(c)
        \/ RoomJoin(c, NamedRoom("dev"))
        \/ RoomJoinHistory(c)
        \/ RoomJoinFailed(c)
        \/ RoomLeave(c, NamedRoom("dev"))
        \/ c = "c1" /\ PrivateMessage(c, "u2", "u1", "hi", MaxFailMsgs)
        \/ PrivateCreated(c)
        \/ PrivateFailed(c)
        \/ \E m \in MsgIds(messages) : MessageRead(c, m, LoginId(c))
        \/ ReadFound(c)
        \/ ReadSaved(c)
        \/ ReadFailed(c)
        \/ Disconnect(c)
        \/ DisconnectSave(c)
        \/ DisconnectSaveFailed(c)

SpecFailures == Init /\ [][NextFailures]_vars

\* SpecClient: one call of the client's sendMessage on c1.  Packets travel at
\* any speed; the server handles one send_message of the connection at a
\* time; the timer of a waiting emit fires unless the acknowledgement comes
\* first.
NextClient ==
    \/ \E c \in Conns : Connect(c)
    \/ \E c \in Conns : Disconnect(c)
    \/ \E hasSocket \in BOOLEAN : ClientSendMessage(hasSocket)
    \/ \E a \in 1..(RETRIES + 1) : ServerReceives(a)
    \/ SendCreated("c1")
    \/ SendFailed("c1")
    \/ \E pkt \in client.acks : ClientAckArrives(pkt)
    \/ ClientTimeout

SpecClient == Init /\ [][NextClient]_vars /\ WF_vars(ClientTimeout)

\* SpecView: one handleSend of the chat view on c1, which stays connected;
\* the acknowledgements and the receive_message events arrive in any order.
NextView ==
    \/ Connect("c1")
    \/ HandleSend
    \/ \E a \in 1..(RETRIES + 1) : ServerReceives(a)
    \/ SendCreated("c1")
    \/ \E pkt \in client.acks : ClientAckArrives(pkt)
    \/ ClientTimeout
    \/ \E id \in MsgIds(messages) : ReceiveMessage(id)
    \/ MergeEffect

SpecView == Init /\ [][NextView]_vars

\* SpecLoad: c1 puts messages into "global"; the chat view is opened and
\* older messages are asked for again and again.
NextLoad ==
    \/ Connect("c1")
    \/ SendMessage("c1", GlobalPayload, MaxLoadMsgs)
    \/ SendCreated("c1")
    \/ Mount
    \/ LoadOlderMessages
    \/ \E n \in client.fetches : FetchReturns(n)

SpecLoad == Init /\ [][NextLoad]_vars

\* SpecJoin: c1 logs in under either name, with no id or with the id "u2"
\* (unknown to the store until bob has logged in), and may log in again; c2
\* logs in as bob and writes to alice, by a Send with recipients and by
\* private_message.
JoinPayload ==
    [roomId |-> NamedRoom("dev"), senderId |-> "u2", recipients |-> {"u1"},
     content |-> "hi", att |-> 0]

NextJoin ==
    \/ \E c \in Conns : Connect(c)
    \/ \E n \in {"alice", "bob"}, i \in {NoId, "u2"} : UserJoin("c1", n, i)
    \/ UserJoin("c2", "bob", NoId)
    \/ \E c \in Conns : JoinLookup(c)
    \/ \E c \in Conns : JoinCreate(c)
    \/ \E c \in Conns : JoinSave(c)
    \/ \E c \in Conns : JoinHistory(c)
    \/ SendMessage("c2", JoinPayload, MaxJoinMsgs)
    \/ SendCreated("c2")
    \/ PrivateMessage("c2", "u1", "u2", "hi", MaxJoinMsgs)
    \/ PrivateCreated("c2")

SpecJoin == Init /\ [][NextJoin]_vars

\* SpecPresence: both connections log in under the same name, so as the same
\* identity, and disconnect.
NextPresence ==
    \E c \in Conns :
        \/ Connect(c)
        \/ UserJoin(c, "alice", NoId)
        \/ JoinLookup(c)
        \/ JoinCreate(c)
        \/ JoinSave(c)
        \/ JoinHistory(c)
        \/ Disconnect(c)
        \/ DisconnectSave(c)

SpecPresence == Init /\ [][NextPresence]_vars

\* SpecTyping: the connections log in, join and leave the rooms "global" and
\* "dev", and send typing events with and without a roomId.
TypingRooms == {NoRoomId, NamedRoom("dev")}

NextTyping ==
    \E c \in Conns :
        \/ Connect(c)
        \/ UserJoin(c, LoginName(c), NoId)
        \/ JoinLookup(c)
        \/ JoinCreate(c)
        \/ JoinSave(c)
        \/ JoinHistory(c)
        \/ \E r \in {GlobalRoom, NamedRoom("dev")} : RoomJoin(c, r)
        \/ RoomJoinHistory(c)
        \/ RoomLeave(c, NamedRoom("dev"))
        \/ \E r \in TypingRooms : TypingStart(c, r)
        \/ \E r \in TypingRooms : TypingStop(c, r)

SpecTyping == Init /\ [][NextTyping]_vars

\* SpecScope: the connections log in and may join "global"; c1 sends into
\* "global"; each connection sends read receipts for its own identity and
\* toggles u1's reaction.
NextScope ==
    \E c \in Conns :
        \/ Connect(c)
        \/ UserJoin(c, LoginName(c), NoId)
        \/ JoinLookup(c)
        \/ JoinCreate(c)
        \/ JoinSave(c)
        \/ JoinHistory(c)
        \/ RoomJoin(c, GlobalRoom)
        \/ RoomJoinHistory(c)
        \/ c = "c1" /\ SendMessage(c, GlobalPayload, MaxScopeMsgs)
        \/ SendCreated(c)
        \/ \E m \in MsgIds(messages) : MessageRead(c, m, LoginId(c))
        \/ ReadFound(c)
        \/ ReadSaved(c)
        \/ \E m \in MsgIds(messages) : MessageReact(c, m, "like", "u1")
        \/ ReactFound(c)
        \/ ReactSaved(c)
        \/ ReactSaveFailed(c)

SpecScope == Init /\ [][NextScope]_vars

\* SpecCleanup: the connections log in or not, join the room "dev" or not,
\* and close; the disconnect listener may run again on a closed connection.
NextCleanup ==
    \E c \in Conns :
        \/ Connect(c)
        \/ UserJoin(c, LoginName(c), NoId)
        \/ JoinLookup(c)
        \/ JoinCreate(c)
        \/ JoinSave(c)
        \/ JoinHistory(c)
        \/ RoomJoin(c, NamedRoom("dev"))
        \/ RoomJoinHistory(c)
        \/ Disconnect(c)
        \/ DisconnectAgain(c)
        \/ DisconnectSave(c)

SpecCleanup == Init /\ [][NextCleanup]_vars

----------------------------------------------------------------------------
(* Properties of Send, checked under Spec *)

SendKinds == {"message:send", "send_message"}

\* the last step was the end of a Send handler (its try ran through, or its
\* catch ran)
SendEnded == out.kind \in SendKinds /\ out.phase \in {"done", "failed"}

\* the connections that got a message:new in the last step
Receivers == {x \in Conns : out.msgNew[x] > 0}

\* the stored message of the last step
OutMsg == messages[MsgIndex(out.msg)]

\* C1: every Send event that the server has handled, message:send or
\* send_message, has had its acknowledgement invoked exactly once: with the
\* persisted message if it was stored, with an error if it was not.
C1_AckExactlyOnce ==
    SendEnded =>
        /\ out.acks = 1
        /\ out.phase = "done" => (out.ack = "delivered" /\ out.ackMsg = out.msg)
        /\ out.phase = "failed" => out.ack = "error"

\* C2: a Send with empty content and no attachments stores no message and is
\* acknowledged with a failure.
C2_EmptySendRejected ==
    (SendEnded /\ out.empty) => (out.phase = "failed" /\ out.ack = "error")

\* C3: a Send to "global" (or with no roomId) with content and no recipients
\* puts exactly one message:new at every connected connection, the sender
\* included, and the sender's acknowledgement carries the stored message.
C3_GlobalSend ==
    (/\ SendEnded /\ out.phase = "done"
     /\ out.roomId \in {GlobalRoom, NoRoomId}
     /\ OutMsg.content # "" /\ OutMsg.recipients = {})
    => /\ \A x \in Open : out.msgNew[x] = 1
       /\ \A x \in Conns \ Open : out.msgNew[x] = 0
       /\ out.ack = "delivered" /\ out.ackMsg = OutMsg.id

\* the connections an identity is logged in on
LiveConns(u) == {x \in Open : onlineUsers[x] = u}

C9_DisconnectCleans ==
    \A c \in Conns :
        connState[c] = "closed" =>
            /\ rooms[c] = {}
            /\ onlineUsers[c] = NoUser
            /\ \A e \in out.snapshot : e[1] # c
            /\ out.msgNew[c] = 0
            /\ c \notin (out.histTo \cup out.snapTo \cup out.notifTo \cup out.readTo \cup out.reactTo)

----------------------------------------------------------------------------
(* Room history, checked under SpecHistory *)

HistoryPushed == out.kind \in {"user:join:history", "room:join:history"}

\* the newest HISTORY_LIMIT messages of a room, oldest first
NewestOf(r) ==
    LET all == InRoom(r)
        n == Len(all)
    IN IdsOf(SubSeq(all, IF n > HISTORY_LIMIT THEN n - HISTORY_LIMIT + 1 ELSE 1, n))

\* C4: the history pushed on a join is the most recent min(100, n) messages
\* of the room, oldest first.
C4_HistoryIsNewest == HistoryPushed => out.history = NewestOf(out.roomId)

\* C6: a private message to u2, stored while u2 is logged in on no
\* connection, has recipients {u2} and the canonical room key and reaches the
\* sender's connection only; and the history u2 gets for that room after
\* logging in contains it.
C6_OfflinePrivate ==
    /\ (out.kind = "private_message" /\ out.phase = "done" /\ out.msg \in sentOffline)
       => /\ OutMsg.recipients = {out.user}
          /\ OutMsg.roomId = PrivateRoom("u1", "u2")
          /\ Receivers = {out.conn}
    /\ (/\ out.kind = "room:join:history"
        /\ onlineUsers[out.conn] = "u2"
        /\ out.roomId = PrivateRoom("u1", "u2"))
       => \A i \in 1..Len(messages) :
            (messages[i].id \in sentOffline /\ messages[i].roomId = out.roomId)
            => InSeq(messages[i].id, out.history)

----------------------------------------------------------------------------
(* The private room key, checked under SpecPrivate *)

IsPrivate(m) == StartsWithPrivate(m.roomId)
Participants(m) == {m.roomId[2], m.roomId[3]}

\* C5: for distinct identities A and B the private room key of (A, B) is the
\* key of (B, A), on the server and in the chat view, and the two agree: the
\* stored private messages between the same two identities are all in one room.
C5_PrivateKeySymmetric ==
    /\ \A a, b \in Ids :
        a # b => /\ ServerPrivateRoomKey(a, b) = ServerPrivateRoomKey(b, a)
                 /\ ClientPrivateRoomKey(a, b) = ClientPrivateRoomKey(b, a)
                 /\ ServerPrivateRoomKey(a, b) = ClientPrivateRoomKey(a, b)
    /\ \A i, j \in 1..Len(messages) :
        (/\ IsPrivate(messages[i]) /\ IsPrivate(messages[j])
         /\ Participants(messages[i]) = Participants(messages[j]))
        => messages[i].roomId = messages[j].roomId

\* C5 witness: a private_message from u1 to u2 and one from u2 to u1 are stored
C5_Witness ==
    \E i, j \in 1..Len(messages) :
        /\ messages[i].senderId = "u1" /\ messages[i].recipients = {"u2"}
        /\ messages[j].senderId = "u2" /\ messages[j].recipients = {"u1"}
        /\ messages[i].roomId = messages[j].roomId

----------------------------------------------------------------------------
(* Receipts and reactions, checked under SpecReceipts *)

Quiescent == \A c \in Conns : tasks[c].pc = "idle"

\* the identity is in the user set of an entry of the emoji
HasReacted(m, emoji, userId) ==
    \E i \in 1..Len(m.reactions) :
        m.reactions[i].emoji = emoji /\ InSeq(userId, m.reactions[i].users)

\* C7: once N toggles of u1's "like" on one message have run, in whatever
\* way their steps interleaved, u1 is in the emoji's user set iff N is odd.
C7_ToggleParity ==
    (Quiescent /\ toggles > 0 /\ Len(messages) > 0)
    => (HasReacted(messages[1], "like", "u1") <=> toggles % 2 = 1)

\* C8: a read receipt for an identity that is already in readBy leaves readBy
\* as it is (no second entry is added) and still broadcasts message:read
\* {messageId, userId} to the message's room.
C8_RepeatedRead ==
    [][\A c \in Conns :
        (/\ tasks[c].pc = "read:find"
         /\ tasks[c].msg \in MsgIds(messages)
         /\ InSeq(tasks[c].user, messages[MsgIndex(tasks[c].msg)].readBy)
         /\ tasks'[c] # tasks[c])
        => /\ messages' = messages
           /\ tasks'[c].pc = "idle"
           /\ out'.kind = "message:read" /\ out'.phase = "done"
           /\ out'.msg = tasks[c].msg /\ out'.user = tasks[c].user
           /\ out'.readTo = RoomSockets(messages[MsgIndex(tasks[c].msg)].roomId) \cap Open
      ]_vars

\* C8 witness: a receipt that wrote nothing was broadcast to a member of the
\* room, and the identity is in readBy once
C8_Witness ==
    /\ out.kind = "message:read" /\ out.phase = "done" /\ ~out.saved
    /\ out.readTo # {}
    /\ Occurrences(out.user, OutMsg.readBy) = 1

----------------------------------------------------------------------------
(* The recipients branch of Send, checked under Spec *)

\* the last step was a Send with recipients and a roomId that is not private:
RecipientSend ==
    /\ SendEnded /\ out.phase = "done"
    /\ ~StartsWithPrivate(out.roomId)
    /\ OutMsg.recipients # {}

----------------------------------------------------------------------------
(* Presence of one identity on two connections, checked under SpecPresence *)

\* the connections bound to an identity in the presence map
BoundConns(u) == {c \in Conns : onlineUsers[c] = u}

\* C12: an identity is bound to at most one connection in the presence map
\* (a newer join supersedes the older connection's entry, whose transport
\* stays open), and a presence snapshot lists an identity at most once.
C12_OneLiveConnection ==
    /\ \A u \in Ids : Cardinality(BoundConns(u)) <= 1
    /\ \A e1, e2 \in out.snapshot : e1[2] = e2[2] => e1 = e2

\* C20: when the stored User document names another connection, which is open
\* and bound to the same identity (the newer join), the end of the older
\* connection's disconnect handler leaves the identity in the snapshot through
\* the newer connection, its online flag true and its stored connection
\* reference naming the newer connection.
C20_StaleDisconnectNoOp ==
    [][\A c, n \in Conns :
        (/\ disc[c].pc = "save" /\ disc'[c].pc = "none"
         /\ n # c /\ disc[c].ref = n
         /\ connState[n] = "open" /\ onlineUsers[n] = disc[c].user
         /\ usersDb[disc[c].user].isOnline /\ usersDb[disc[c].user].socketId = n)
        => /\ <<n, disc[c].user>> \in out'.snapshot
           /\ usersDb'[disc[c].user].isOnline
           /\ usersDb'[disc[c].user].socketId = n
      ]_vars

----------------------------------------------------------------------------
(* Join and private_message, checked under Spec *)

\* C13: after a Join that resolved an identity the joining connection is bound
\* to it in the presence map and is a member of "global"; the presence
\* snapshot with the joined identity goes to all connections, and
\* messages:history goes to the joining connection only.
C13_JoinEffects ==
    /\ (out.kind = "user:join:bound" /\ out.conn \in Open)
       => /\ onlineUsers[out.conn] # NoUser
          /\ <<out.conn, onlineUsers[out.conn]>> \in out.snapshot
          /\ out.snapTo = Open
          /\ GlobalRoom \in rooms[out.conn]
    /\ (out.kind = "user:join:history" /\ out.conn \in Open
        /\ onlineUsers[out.conn] # NoUser)
       => /\ out.histTo = {out.conn}
          /\ GlobalRoom \in rooms[out.conn]

\* C14: a private_message from S to T leaves S's connection and every live
\* connection of T members of the private room, each of them gets message:new
\* once, and the notification goes to T's connections and to no other.
C14_PrivateMessageEffects ==
    (out.kind = "private_message" /\ out.phase = "done" /\ out.conn \in Open)
    => /\ \A x \in {out.conn} \cup LiveConns(out.user) :
            out.roomId \in rooms[x] /\ out.msgNew[x] = 1
       /\ out.roomId = ServerPrivateRoomKey(OutMsg.senderId, out.user)
       /\ out.notifTo = LiveConns(out.user)

----------------------------------------------------------------------------
(* Pages of a room over HTTP, checked under SpecPages *)

Min(a, b) == IF a < b THEN a ELSE b

\* the messages of a room ranked s + 1 .. s + l from the newest, oldest first
RankedFromNewest(r, l, s) ==
    LET all == IdsOf(InRoom(r))
        n == Len(all)
        k == IF n > s THEN Min(l, n - s) ELSE 0
    IN [i \in 1..k |-> all[n - s - k + i]]

\* the pages for skip = s, s + l, s + 2l, ..., put together oldest page first
RECURSIVE PagesFrom(_, _, _)
PagesFrom(r, l, s) ==
    IF s >= Len(InRoom(r))
    THEN <<>>
    ELSE PagesFrom(r, l, s + QueryInt(l, DEFAULT_PAGE_LIMIT)) \o GetMessages(r, l, s)

\* C15: GET /api/messages/:roomId with limit L (20 when absent) and skip S
\* (0 when absent) answers with the messages of the room ranked S+1 .. S+L
\* from the newest, oldest first; the pages for skip = 0, L, 2L, ... together
\* are the messages of the room, each once.
C15_Pagination ==
    /\ out.kind = "GET messages"
       => out.history =
            RankedFromNewest(out.roomId, IF out.limit = 0 THEN 20 ELSE out.limit, out.skip)
    /\ \A r \in {GlobalRoom, NamedRoom("dev")}, l \in PageLimits :
            PagesFrom(r, l, 0) = IdsOf(InRoom(r))

\* C15 witness: with 21 messages in the room and no limit given, the first
\* page is the newest 20 and the page for skip = 20 is the oldest message
C15_Witness ==
    /\ out.kind = "GET messages" /\ out.limit = 0 /\ out.skip = 20
    /\ Len(InRoom(out.roomId)) = 21
    /\ out.history = <<InRoom(out.roomId)[1].id>>
    /\ Len(GetMessages(out.roomId, 0, 0)) = 20

----------------------------------------------------------------------------
(* Order of the messages of one room, checked under SpecOrder *)

\* C16: messages of one room reach a connection in the order of their
\* creation times, also when the Sends come from different connections and
\* their handlers interleave: when message:new for a message goes out to
\* every connection, no message of the same room with a later creation time
\* is in the store (it would have gone out to every connection before); and
\* the room history lists the messages in the order of their creation times.
C16_RoomOrder ==
    /\ (SendEnded /\ out.phase = "done" /\ Receivers = Conns)
       => \A i \in 1..Len(messages) :
            messages[i].roomId = OutMsg.roomId => messages[i].id <= out.msg
    /\ HistoryPushed
       => \A i, j \in 1..Len(out.history) : i < j => out.history[i] < out.history[j]

----------------------------------------------------------------------------
(* Storage failures in the handlers other than Send, checked under SpecFailures *)

\* C17: when a storage call fails in a handler other than Send, the error
\* does not escape the handler, the connection's transport is left as it was,
\* and the presence entries and room memberships of the other connections
\* are unchanged.
C17_FailureContained ==
    [][(out'.phase = "failed" /\ out'.kind \notin SendKinds)
       => /\ ~out'.escaped
          /\ connState' = connState
          /\ \A x \in Conns \ {out'.conn} :
                onlineUsers'[x] = onlineUsers[x] /\ rooms'[x] = rooms[x]
      ]_vars

----------------------------------------------------------------------------
(* The client's sendMessage, checked under SpecClient *)

C19_RetryNotIdempotent ==
    /\ Len(messages) = client.stored
    /\ Len(messages) <= client.attempts
    /\ \A i \in 1..Len(messages) :
        /\ messages[i].senderId = ClientMessage.senderId
        /\ messages[i].content = ClientMessage.content
        /\ messages[i].roomId = ClientMessage.roomId

\* C19 witness: one call; its first attempt was stored and then timed out on
\* the client, the retry was stored too: two documents, and message:new is
\* going out for the second
C19_Witness ==
    /\ client.attempts >= 2 /\ client.callbacks <= 1 /\ client.retriedStored
    /\ Len(messages) >= 2
    /\ out.kind = "send_message" /\ out.phase = "done"
    /\ out.msg = messages[2].id /\ Receivers # {}

----------------------------------------------------------------------------
(* Joining again and resolution of the identity, checked under SpecJoin *)

\* the identities whose user room a connection is a member of
ReachableAs(c) == {u \in Ids : UserRoom(u) \in rooms[c]}

\* C21: a connection is bound to one identity at a time, and after joining
\* again as another identity it is reachable as that identity only: it is in
\* no other identity's user room, a Send with recipients reaches, besides the
\* sender, only connections bound to a recipient, and a private_message
\* reaches, besides the sender, only connections bound to its addressee.
C21_OneIdentityPerConnection ==
    /\ \A c \in Open :
        tasks[c].pc = "idle" => ReachableAs(c) \subseteq {onlineUsers[c]}
    /\ (SendEnded /\ out.phase = "done" /\ ~StartsWithPrivate(out.roomId)
        /\ OutMsg.recipients # {})
       => \A x \in Receivers : x = out.conn \/ onlineUsers[x] \in OutMsg.recipients
    /\ (out.kind = "private_message" /\ out.phase = "done")
       => \A x \in Receivers : x = out.conn \/ onlineUsers[x] = out.user

\* C22: a Join whose existingId is not in the identity store ends at the
\* lookup, also when a displayName came with it: nothing is looked up by name
\* or created, and the connection's presence entry and rooms stay as they
\* were.
C22_UnknownIdNotFound ==
    [][\A c \in Conns :
        (/\ tasks[c].pc = "join:lookup"
         /\ tasks[c].user # NoId /\ ~usersDb[tasks[c].user].exists
         /\ tasks'[c] # tasks[c])
        => /\ tasks'[c].pc = "idle"
           /\ usersDb' = usersDb
           /\ onlineUsers'[c] = onlineUsers[c] /\ rooms'[c] = rooms[c]
      ]_vars

----------------------------------------------------------------------------
(* Two joins under one new name, checked under SpecPresence *)

\* C23: a name belongs to one identity, and a Join that found no identity of
\* its name and went on to create one ends up bound to the identity of that
\* name, also when another connection created it in between.
C23_ConcurrentCreate ==
    [][\A c \in Conns :
        (tasks[c].pc = "join:create" /\ tasks'[c] # tasks[c])
        => /\ usersDb'[IdOfName(tasks[c].name)].exists
           /\ tasks'[c].pc = "join:save"
           /\ tasks'[c].user = IdOfName(tasks[c].name)
      ]_vars

----------------------------------------------------------------------------
(* Concurrent read receipts, checked under SpecReceipts *)

\* C24: read receipts on one message do not disturb each other: a receipt
\* that ended has its identity in readBy, whatever other receipts ran on the
\* message meanwhile, and an identity is in readBy at most once, also when
\* two receipts of that identity ran at the same time.
C24_ReadsAtomic ==
    /\ (out.kind = "message:read" /\ out.phase = "done")
       => InSeq(out.user, OutMsg.readBy)
    /\ \A i \in 1..Len(messages), u \in Ids :
        Occurrences(u, messages[i].readBy) <= 1

----------------------------------------------------------------------------
(* The content of stored messages, checked under Spec *)

\* C25: every stored message has content that is not empty, or at least one
\* attachment.
C25_ContentOrAttachment ==
    \A i \in 1..Len(messages) : messages[i].content # "" \/ messages[i].att > 0

----------------------------------------------------------------------------
(* The fields of a stored message, checked under SpecDelivered *)

\* the stored document of an id
Doc(store, id) == store[CHOOSE i \in 1..Len(store) : store[i].id = id]

\* every element of s is an element of t
Within(s, t) == \A i \in 1..Len(s) : InSeq(s[i], t)

\* the step is a step of a handler of the event
StepOf(event) ==
    \E c \in Conns :
        tasks'[c] # tasks[c] /\ (tasks[c].kind = event \/ tasks'[c].kind = event)

\* C26: readBy and deliveredBy of a stored message only grow: no step of a
\* read, delivered or reaction handler takes an identity out of either; and
\* a handler changes its own field only: a read receipt leaves reactions and
\* deliveredBy as they are, a delivered receipt readBy and reactions, a
\* reaction toggle readBy and deliveredBy, however the handlers interleave.
C26_FieldsOnlyGrow ==
    [][\A id \in MsgIds(messages) :
        /\ id \in MsgIds(messages')
        /\ LET a == Doc(messages, id)
               b == Doc(messages', id)
           IN
           /\ Within(a.readBy, b.readBy)
           /\ Within(a.deliveredBy, b.deliveredBy)
           /\ StepOf("message:read")
              => b.reactions = a.reactions /\ b.deliveredBy = a.deliveredBy
           /\ StepOf("message:delivered")
              => b.reactions = a.reactions /\ b.readBy = a.readBy
           /\ StepOf("message:react")
              => b.readBy = a.readBy /\ b.deliveredBy = a.deliveredBy
      ]_vars

\* C26 witness: a delivered receipt went through its save on a message that
\* has a read receipt and a reaction
C26_Witness ==
    /\ out.kind = "message:delivered" /\ out.phase = "done" /\ out.saved
    /\ OutMsg.readBy # <<>>
    /\ OutMsg.reactions # <<>>

----------------------------------------------------------------------------
(* The effect of a reaction toggle, checked under SpecReceipts *)

\* the entries of an emoji among a message's reactions
EntriesOf(m, emoji) == {i \in 1..Len(m.reactions) : m.reactions[i].emoji = emoji}

\* C27: a toggle that is stored acts on the stored reactions: with no entry
\* of the emoji it appends one whose users are the identity alone; with an
\* entry it takes the identity out if it is in and puts it in if it is not,
\* and the entry stays when its users become empty; and a message never has
\* two entries of one emoji.
C27_ToggleEffect ==
    [][/\ \A i \in 1..Len(messages') :
            Cardinality(EntriesOf(messages'[i], "like")) <= 1
       /\ \A c \in Conns :
            (/\ tasks[c].pc = "react:save"
             /\ out'.kind = "message:react" /\ out'.phase = "done" /\ out'.conn = c)
            => LET t == tasks[c]
                   a == Doc(messages, t.msg)
                   b == Doc(messages', t.msg)
                   k == FindReaction(a.reactions, t.emoji)
               IN
               IF k = 0
               THEN b.reactions =
                        Append(a.reactions, [emoji |-> t.emoji, users |-> <<t.user>>])
               ELSE /\ Len(b.reactions) = Len(a.reactions)
                    /\ b.reactions[k].emoji = t.emoji
                    /\ InSeq(t.user, b.reactions[k].users)
                        <=> ~InSeq(t.user, a.reactions[k].users)
      ]_vars

----------------------------------------------------------------------------
(* Receipts and toggles that name no stored message, checked under SpecDelivered *)

FindSteps == {"read:find", "react:find", "delivered:find"}

\* the step delivered no event to any connection
Silent(o) ==
    /\ o.msgNew = NoCounts /\ o.acks = 0
    /\ o.histTo = {} /\ o.snapTo = {} /\ o.notifTo = {}
    /\ o.readTo = {} /\ o.reactTo = {}
    /\ o.deliveredTo = {} /\ o.updateTo = {} /\ o.typingTo = {}

\* C28: a read receipt, reaction toggle or delivered receipt naming an id
\* that is not in the store does nothing: neither the arrival of the event
\* nor the return of its findById changes or creates a message, emits an
\* event, or changes the connection; the handler ends at the lookup.
C28_MissingIsSilent ==
    [][\A c \in Conns :
        /\ (/\ tasks[c].pc = "idle" /\ tasks'[c].pc \in FindSteps
            /\ tasks'[c].msg \notin MsgIds(messages))
           => /\ messages' = messages /\ Silent(out')
              /\ connState' = connState /\ onlineUsers' = onlineUsers /\ rooms' = rooms
        /\ (/\ tasks[c].pc \in FindSteps /\ tasks'[c] # tasks[c]
            /\ tasks[c].msg \notin MsgIds(messages)
            /\ out'.phase # "failed")
           => /\ messages' = messages /\ Silent(out')
              /\ connState' = connState /\ onlineUsers' = onlineUsers /\ rooms' = rooms
              /\ tasks'[c] = Idle
      ]_vars

----------------------------------------------------------------------------
(* Delivered receipts, checked under SpecDelivered *)

\* C29: when a delivered receipt for a stored message has been handled, the
\* identity is in the message's stored deliveredBy once, and the one
\* message:delivered {messageId, userId} of the handler went to every
\* connection.
C29_DeliveredRecorded ==
    (out.kind = "message:delivered" /\ out.phase = "done")
    => /\ Occurrences(out.user, OutMsg.deliveredBy) = 1
       /\ out.deliveredTo = Open

----------------------------------------------------------------------------
(* Typing events, checked under SpecTyping *)

TypingKinds == {"typing:start", "typing:stop"}

\* the connections that have logged in with user:join
Joined == {c \in Open : onlineUsers[c] # NoUser}

\* C30: a typing event for room R ("global" with no roomId) goes to the
\* connections in R other than the sender and to no one else; with no roomId
\* it goes to every other connection that has joined; and it leaves the
\* presence map, the room memberships and the stored messages as they were.
C30_TypingRelay ==
    [][out'.kind \in TypingKinds
       => /\ out'.typingTo = (RoomSockets(out'.roomId) \cap Open) \ {out'.conn}
          /\ out'.roomId = GlobalRoom
             => (Joined \ {out'.conn}) \subseteq out'.typingTo
          /\ onlineUsers' = onlineUsers /\ rooms' = rooms /\ messages' = messages
          /\ usersDb' = usersDb
      ]_vars

----------------------------------------------------------------------------
(* The reach of message:read and message:reaction, checked under SpecScope *)

\* C31: message:read goes to the connections that are members of the
\* message's room and to no other, which for a message in "global" is every
\* connection that has joined; message:reaction goes to every connection,
\* whatever rooms it is in.
C31_BroadcastScope ==
    /\ (out.kind = "message:read" /\ out.phase = "done")
       => /\ out.readTo = RoomSockets(OutMsg.roomId) \cap Open
          /\ OutMsg.roomId = GlobalRoom => Joined \subseteq out.readTo
    /\ (out.kind = "message:react" /\ out.phase = "done")
       => out.reactTo = Open

----------------------------------------------------------------------------
(* Disconnect cleanup on a connection with no presence entry, checked under
   SpecCleanup *)

\* the step is a run of the disconnect listener on c that found no presence
\* entry of c: a first run on a connection that never logged in, or a run
\* after a run that took the entry out
CleanupOfUnbound(c) ==
    /\ onlineUsers[c] = NoUser /\ disc[c].pc = "none"
    /\ out'.kind = "disconnect:done" /\ out'.conn = c
    /\ out' # out

\* C32: the cleanup takes the connection's presence entry out, and a run of
\* it on a connection that has none, because it never logged in or because
\* the cleanup ran before, changes neither the presence map, nor a stored
\* online flag, nor a room membership of another connection (the closing
\* connection's own memberships go with its transport).
C32_CleanupIdempotent ==
    [][\A c \in Conns :
        /\ (connState[c] = "open" /\ connState'[c] = "closed")
           => onlineUsers'[c] = NoUser
        /\ CleanupOfUnbound(c)
           => /\ onlineUsers' = onlineUsers
              /\ usersDb' = usersDb
              /\ \A x \in Conns \ {c} : rooms'[x] = rooms[x]
              /\ connState[c] = "closed" => rooms' = rooms
      ]_vars

\* C32 witness: the cleanup ran again on a connection that had logged in and
\* whose first cleanup was saved, while the other connection is logged in and
\* in a room
C32_Witness ==
    /\ out.kind = "disconnect:done" /\ out.phase = "again"
    /\ usersDb[LoginId(out.conn)].exists /\ ~usersDb[LoginId(out.conn)].isOnline
    /\ \E x \in Open \ {out.conn} :
        onlineUsers[x] # NoUser /\ NamedRoom("dev") \in rooms[x]

----------------------------------------------------------------------------
(* Failing saves of the online flag, checked under SpecFailures *)

\* C33: the save of the online flag does not decide the transition.  When
\* the save of user:join returns, with or without an error, the connection is
\* bound to the identity and the snapshot goes to every connection; when the
\* save of the disconnect handler returns, with or without an error, the
\* presence map stays without the connection's entry and the snapshot goes to
\* every connection.  (Steps in which another handler's error ends the
\* process are left aside.)
C33_SaveBestEffort ==
    [][\A c \in Conns :
        /\ (tasks[c].pc = "join:save" /\ tasks'[c] # tasks[c] /\ ~out'.escaped)
           => /\ onlineUsers'[c] = tasks[c].user
              /\ out'.snapTo = Open
              /\ out'.snapshot = Snapshot(onlineUsers')
        /\ (disc[c].pc = "save" /\ disc'[c] # disc[c] /\ ~out'.escaped)
           => /\ onlineUsers' = onlineUsers
              /\ out'.kind = "disconnect:done"
              /\ out'.snapTo = Open
              /\ out'.snapshot = Snapshot(onlineUsers')
      ]_vars

----------------------------------------------------------------------------
(* The order of the steps of a Send, checked under Spec *)

\* x and y are both in s, and every x comes before every y
Before(x, y, s) ==
    /\ InSeq(x, s) /\ InSeq(y, s)
    /\ \A i, j \in 1..Len(s) : (s[i] = x /\ s[j] = y) => i < j

\* C34: a Send that succeeded stored its message, then fanned message:new
\* out, then emitted one notification to every connection, and only then
\* acknowledged (if its event has an acknowledgement): the message of a
\* message:new is in the store.  A Send that failed emitted no message:new
\* and no notification.
C34_SendOrder ==
    /\ (SendEnded /\ out.phase = "done")
       => /\ out.msg \in MsgIds(messages)
          /\ Before("create", "message:new", out.order)
          /\ Before("message:new", "notification", out.order)
          /\ Occurrences("notification", out.order) = 1
          /\ out.notifTo = Open
          /\ InSeq("ack", out.order) => Before("notification", "ack", out.order)
          /\ InSeq("ack", out.order) <=> out.acks > 0
    /\ (SendEnded /\ out.phase = "failed")
       => /\ out.msgNew = NoCounts /\ out.notifTo = {}
          /\ ~InSeq("message:new", out.order) /\ ~InSeq("notification", out.order)
    /\ \A x \in Conns : out.msgNew[x] > 0 => out.msg \in MsgIds(messages)

\* C34 witness: a send_message went through: its message:new reached both
\* connections and its acknowledgement was invoked
C34_Witness ==
    /\ out.kind = "send_message" /\ out.phase = "done" /\ out.acks = 1
    /\ Receivers = Conns
    /\ out.order = <<"create", "message:new", "notification", "ack">>

----------------------------------------------------------------------------
(* The message list of the chat view, checked under SpecView *)

\* C35: the list of the chat view never holds a key twice; and once a send
\* has been acknowledged as delivered and the emit's callback has run, the
\* list holds the acknowledged message once under its server id and holds
\* the placeholder no more, whether the receive_message came before or after.
C35_ViewHoldsMessageOnce ==
    /\ \A i, j \in 1..Len(client.view) :
        client.view[i] = client.view[j] => i = j
    /\ (client.pc = "done" /\ client.acked # 0)
       => /\ Occurrences(<<"id", client.acked>>, client.view) = 1
          /\ ~InSeq(TempMessage, client.view)

----------------------------------------------------------------------------
(* Loading older messages in the chat view, checked under SpecLoad *)

\* C36: no message is loaded into the list twice, every answer to a load
\* brings only messages older than those shown, and loading older messages
\* comes to an end: when more answers have come in than the room has
\* messages, one of them was empty and hasMore is false.
C36_LoadOlderEnds ==
    /\ \A i, j \in 1..Len(client.view) :
        i < j => client.view[i][2] < client.view[j][2]
    /\ client.loads > Len(InRoom(GlobalRoom)) => ~client.hasMore
====
